---- MODULE Spec2Model ----
(***************************************************************************)
(* CodePet behaviour engine: the pet controller (core/pet/controller.py),  *)
(* its data model (core/pet/model.py) and the event bus it emits on        *)
(* (core/events.py).                                                       *)
(*                                                                         *)
(* Time is counted in whole seconds.  time.time() is the variable now; it  *)
(* advances by ClockStep seconds at a time, so every duration of the code  *)
(* keeps its value in seconds and expires at the first instant of the grid *)
(* at or after its end_time.                                               *)
(***************************************************************************)
EXTENDS Integers, Sequences, FiniteSets, TLC

VARIABLES
    state,                  \* PetModel.state            (model.py:68)
    mood,                   \* PetModel.mood             (model.py:69)
    current_action,         \* PetModel.current_action   (model.py:70)
    energy,                 \* PetModel.energy           (model.py:73)
    happiness,              \* PetModel.happiness        (model.py:74)
    temporary_action_info,  \* PetController._temporary_action_info (controller.py:56)
    last_state_update,      \* PetController.last_state_update      (controller.py:46)
    now,                    \* time.time()
    emitted,                \* the events the last step passed to EventSystem.emit, in order
    handled,                \* the number of bus events the controller has handled
    pc,                     \* per thread: the statement of the controller it is about to run
    local,                  \* per thread: the arguments and locals of the call it is in
    is_programming,         \* ActivityTracker.is_programming      (tracker.py:50)
    is_programming_mode,    \* KeyLogger.is_programming_mode       (keylogger.py:50)
    _listeners,             \* EventSystem._listeners              (events.py:25)
    emit_event_name,        \* emit: the event_name of the last emit (events.py:71)
    handlers_to_call,       \* emit: the copy of the handler list  (events.py:90)
    position,               \* emit: the place of the for loop in the list it runs over
    called,                 \* emit: the handlers called, each with what it did
    emit_pc,                \* emit: "idle", "dispatch", "returned" or "propagated"
    registrations,          \* the register calls that appended a handler, in order
    bus_ops,                \* the number of register and unregister calls made
    emits,                  \* the number of emit calls made
    is_running,             \* ActivityTracker.is_running          (tracker.py:49)
    programming_sessions,   \* ActivityTracker.programming_sessions (tracker.py:55)
    total_programming_time, \* ActivityTracker.total_programming_time (tracker.py:54)
    slept,                  \* _tracking_loop: the argument of its last time.sleep
    keypress_count,         \* KeyLogger.keypress_count            (keylogger.py:47)
    current_pet_character_name, \* PetWindow.current_pet_character_name (window.py:33)
    animator,               \* PetWindow.animator, an Animator or None (window.py:34)
    animation_timer,        \* PetWindow.animation_timer.isActive() (window.py:35)
    pet_label               \* PetWindow.pet_label: the pixmap or the text it shows

(* The fields of the pet and of its controller.                             *)
pet == <<state, mood, current_action, energy, happiness, temporary_action_info,
         last_state_update>>

(* The event bus and the emit in progress on it.                            *)
bus == <<_listeners, emit_event_name, handlers_to_call, position, called, emit_pc,
         registrations, bus_ops, emits>>

(* The activity tracker's sessions and its loop, and the keylogger's count.  *)
sampler == <<is_running, programming_sessions, total_programming_time, slept,
             keypress_count>>

(* The window and its animator.                                             *)
ui == <<current_pet_character_name, animator, animation_timer, pet_label>>

vars == <<state, mood, current_action, energy, happiness, temporary_action_info,
          last_state_update, now, emitted, handled, pc, local,
          is_programming, is_programming_mode, bus, sampler, ui>>

-----------------------------------------------------------------------------
(* Enumerations of core/pet/model.py.  A member is written by its name.     *)

MoodType == {"NORMAL", "HAPPY", "TIRED", "PLAYFUL", "RELAXED", "EXCITED", "SAD", "SLEEPY"}

ActionType == {"IDLE", "WORK", "REST", "SLEEP", "EAT", "PLAY", "ALERT", "HAPPY",
               "CELEBRATE", "ENCOURAGE", "TIRED", "SURPRISED", "REACT"}

StateType == {"IDLE", "WORKING", "SLEEPING"}

(* Optional[...] values: None is the empty sequence, a value x is <<x>>.    *)
None == <<>>
Some(x) == <<x>>

-----------------------------------------------------------------------------
(* Bounds of the model.                                                     *)

ClockStep == 5      \* seconds by which the clock advances in one step
MaxTime == 60       \* the clock stops advancing here
MaxEvents == 3      \* the bus delivers at most this many events to the controller

-----------------------------------------------------------------------------
(* Configuration: ConfigManager.get_setting(key, default).  Each definition *)
(* is the value the controller reads for the key named in its comment.  The *)
(* thresholds, durations and gains are the defaults written in the code.    *)
(* The six decay and regeneration rates are configured at ten times the     *)
(* default (2, 1, 1, 0.5, 5, 2), so that a pet crosses every threshold and  *)
(* reaches both ends of [0, 100] within MaxTime.  The durations with a      *)
(* fractional default (1.5, 2.5) are rounded up to whole seconds.           *)

pet_type == "cat"                   \* 'pet.type'
state_update_interval == 10         \* 'pet.state_update_interval'
energy_working == 20                \* 'pet.decay_rates.energy_working'
happiness_working == 10             \* 'pet.decay_rates.happiness_working'
energy_idle == 10                   \* 'pet.regen_rates.energy_idle'
happiness_idle == 5                \* 'pet.decay_rates.happiness_idle'
energy_sleeping == 50               \* 'pet.regen_rates.energy_sleeping'
happiness_sleeping == 20            \* 'pet.regen_rates.happiness_sleeping'
low_energy == 20                    \* 'pet.thresholds.low_energy'
alert_low_energy == 5               \* 'pet.durations.alert_low_energy'
energy_tired == 20                  \* 'pet.thresholds.energy_tired'
happiness_sad == 30                 \* 'pet.thresholds.happiness_sad'
energy_happy_excited == 80          \* 'pet.thresholds.energy_happy_excited'
happiness_happy_excited == 70       \* 'pet.thresholds.happiness_happy_excited'
energy_normal == 60                 \* 'pet.thresholds.energy_normal'
happiness_normal == 50              \* 'pet.thresholds.happiness_normal'
encourage_work_start == 3           \* 'pet.durations.encourage_work_start'
work_long_for_tired == 3600         \* 'pet.thresholds.work_long_for_tired'
tired_after_long_work == 5          \* 'pet.durations.tired_after_long_work'
work_medium_for_happy == 1800       \* 'pet.thresholds.work_medium_for_happy'
happy_after_medium_work == 3        \* 'pet.durations.happy_after_medium_work'
idle_to_sleep_in_work == 1800       \* 'pet.thresholds.idle_to_sleep_in_work'
idle_to_bored_in_work == 600        \* 'pet.thresholds.idle_to_bored_in_work'
rest_when_bored == 10               \* 'pet.durations.rest_when_bored'
keypress_reaction == 50             \* 'pet.intervals.keypress_reaction'
on_keypress == {"SURPRISED", "HAPPY", "ENCOURAGE"}  \* 'pet.reactions.on_keypress'
keypress_reaction_min == 2          \* 'pet.durations.keypress_reaction_min'
keypress_reaction_max == 3          \* 'pet.durations.keypress_reaction_max'
celebrate_achievement == 5          \* 'pet.durations.celebrate_achievement'
celebrate_goal == 4                 \* 'pet.durations.celebrate_goal'
react_min == 1                      \* 'pet.durations.react_min'
react_max == 3                      \* 'pet.durations.react_max'
happiness_on_click == 2            \* 'pet.gains.happiness_on_click'
eat == 3                            \* 'pet.durations.eat'
energy_on_feed == 20                \* 'pet.gains.energy_on_feed'
happiness_on_feed == 10             \* 'pet.gains.happiness_on_feed'

(* random.uniform(a, b), in whole seconds: the two ends of the interval.    *)
uniform(a, b) == {a, b}

Max(a, b) == IF a >= b THEN a ELSE b
Min(a, b) == IF a <= b THEN a ELSE b

-----------------------------------------------------------------------------
(* The controller and its pet as one value; the operators below are the     *)
(* methods of PetController, taking and returning this value.  `out` is the  *)
(* sequence of events the call has emitted so far, each <<name, x, y>>.      *)

Self ==
    [state |-> state, mood |-> mood, current_action |-> current_action,
     energy |-> energy, happiness |-> happiness,
     temporary_action_info |-> temporary_action_info,
     last_state_update |-> last_state_update, out |-> <<>>]

emit(c, event_name, x, y) == [c EXCEPT !.out = Append(@, <<event_name, x, y>>)]

_clear_temporary_action(c) ==
    IF c.temporary_action_info # None
    THEN [c EXCEPT !.temporary_action_info = None]
    ELSE c

(* set_mood without the early return for an unchanged mood.                  *)
set_mood_always_emits(c, m) ==
    LET new == IF m \in MoodType THEN m ELSE "NORMAL"
    IN  emit([c EXCEPT !.mood = new], "pet_mood_changed", c.mood, new)

(* set_mood without the isinstance check of lines 103-105.                   *)
set_mood_unchecked(c, m) ==
    IF c.mood = m
    THEN c
    ELSE emit([c EXCEPT !.mood = m], "pet_mood_changed", c.mood, m)

set_mood(c, m) ==
    LET new == IF m \in MoodType THEN m ELSE "NORMAL"
        prev_mood == c.mood
    IN  IF prev_mood = new
        THEN c
        ELSE emit([c EXCEPT !.mood = new], "pet_mood_changed", prev_mood, new)

(* set_action that clears the pending record only when it installs a new one. *)
set_action_keeps_record(c, a, duration, t) ==
    LET action == IF a \in ActionType THEN a ELSE "IDLE"
        prev_action == c.current_action
        c2 == [c EXCEPT !.current_action = action]
        c3 == emit(c2, "ui_play_animation", action, c2.mood)
        c4 == IF prev_action # action
              THEN emit(c3, "pet_action_changed", prev_action, action)
              ELSE c3
    IN  IF duration # None /\ duration[1] > 0
        THEN [c4 EXCEPT !.temporary_action_info =
                            Some([action |-> action, end_time |-> t + duration[1]])]
        ELSE c4

(* set_action that records every duration that is not None.                  *)
set_action_any_duration(c, a, duration, t) ==
    LET action == IF a \in ActionType THEN a ELSE "IDLE"
        c1 == _clear_temporary_action(c)
        prev_action == c1.current_action
        c2 == [c1 EXCEPT !.current_action = action]
        c3 == emit(c2, "ui_play_animation", action, c2.mood)
        c4 == IF prev_action # action
              THEN emit(c3, "pet_action_changed", prev_action, action)
              ELSE c3
    IN  IF duration # None
        THEN [c4 EXCEPT !.temporary_action_info =
                            Some([action |-> action, end_time |-> t + duration[1]])]
        ELSE c4

(* set_action that emits pet_action_changed on every call.                   *)
set_action_always_emits(c, a, duration, t) ==
    LET action == IF a \in ActionType THEN a ELSE "IDLE"
        c1 == _clear_temporary_action(c)
        prev_action == c1.current_action
        c2 == [c1 EXCEPT !.current_action = action]
        c3 == emit(c2, "ui_play_animation", action, c2.mood)
        c4 == emit(c3, "pet_action_changed", prev_action, action)
    IN  IF duration # None /\ duration[1] > 0
        THEN [c4 EXCEPT !.temporary_action_info =
                            Some([action |-> action, end_time |-> t + duration[1]])]
        ELSE c4

(* set_action, lines 150-185: the action is assigned and announced.          *)
set_action_assign(c, action) ==
    LET prev_action == c.current_action
        c2 == [c EXCEPT !.current_action = action]
        c3 == emit(c2, "ui_play_animation", action, c2.mood)
    IN  IF prev_action # action
        THEN emit(c3, "pet_action_changed", prev_action, action)
        ELSE c3

(* set_action, lines 189-193: the record of a timed action is installed.     *)
set_action_record(c, action, duration, t) ==
    IF duration # None /\ duration[1] > 0
    THEN [c EXCEPT !.temporary_action_info =
                      Some([action |-> action, end_time |-> t + duration[1]])]
    ELSE c

set_action(c, a, duration, t) ==
    LET action == IF a \in ActionType THEN a ELSE "IDLE"
    IN  set_action_record(set_action_assign(_clear_temporary_action(c), action),
                          action, duration, t)

(* set_state that plays on entering IDLE whenever energy is high.            *)
set_state_plays_on_energy(c, s, t, play) ==
    LET new == IF s \in StateType THEN s ELSE "IDLE"
        prev_state == c.state
        default_action == CASE new = "IDLE" -> "IDLE"
                            [] new = "WORKING" -> "WORK"
                            [] new = "SLEEPING" -> "SLEEP"
        c1 == emit([c EXCEPT !.state = new], "pet_state_changed", prev_state, new)
    IN  IF prev_state = new
        THEN IF c.current_action # default_action
             THEN set_action(c, default_action, None, t)
             ELSE c
        ELSE CASE new = "WORKING" ->
                    set_action(
                        IF c1.energy > 70 THEN set_mood(c1, "HAPPY")
                        ELSE IF c1.energy < 30 THEN set_mood(c1, "TIRED")
                        ELSE set_mood(c1, "NORMAL"),
                        "WORK", None, t)
               [] new = "IDLE" ->
                    IF c1.energy > 70
                    THEN set_action(set_mood(c1, "PLAYFUL"), "PLAY", Some(play), t)
                    ELSE IF c1.energy < 30
                    THEN set_action(set_mood(c1, "TIRED"), "REST", None, t)
                    ELSE set_action(set_mood(c1, "RELAXED"), "IDLE", None, t)
               [] new = "SLEEPING" ->
                    set_action(set_mood(c1, "SLEEPY"), "SLEEP", None, t)

(* set_state that selects mood and action again when the state is already   *)
(* the one asked for.                                                        *)
set_state_reselects(c, s, t, play) ==
    LET new == IF s \in StateType THEN s ELSE "IDLE"
        prev_state == c.state
        c1 == IF prev_state = new
              THEN c
              ELSE emit([c EXCEPT !.state = new], "pet_state_changed", prev_state, new)
    IN  CASE new = "WORKING" ->
                set_action(
                    IF c1.energy > 70 THEN set_mood(c1, "HAPPY")
                    ELSE IF c1.energy < 30 THEN set_mood(c1, "TIRED")
                    ELSE set_mood(c1, "NORMAL"),
                    "WORK", None, t)
           [] new = "IDLE" ->
                IF c1.energy > 70 /\ c1.happiness > 60
                THEN set_action(set_mood(c1, "PLAYFUL"), "PLAY", Some(play), t)
                ELSE IF c1.energy < 30
                THEN set_action(set_mood(c1, "TIRED"), "REST", None, t)
                ELSE set_action(set_mood(c1, "RELAXED"), "IDLE", None, t)
           [] new = "SLEEPING" ->
                set_action(set_mood(c1, "SLEEPY"), "SLEEP", None, t)

(* set_state; play is the draw of random.uniform(3.0, 7.0) at line 248.     *)
set_state(c, s, t, play) ==
    LET new == IF s \in StateType THEN s ELSE "IDLE"
        prev_state == c.state
        default_action == CASE new = "IDLE" -> "IDLE"
                            [] new = "WORKING" -> "WORK"
                            [] new = "SLEEPING" -> "SLEEP"
        c1 == emit([c EXCEPT !.state = new], "pet_state_changed", prev_state, new)
    IN  IF prev_state = new
        THEN IF c.current_action # default_action
             THEN set_action(c, default_action, None, t)
             ELSE c
        ELSE CASE new = "WORKING" ->
                    set_action(
                        IF c1.energy > 70 THEN set_mood(c1, "HAPPY")
                        ELSE IF c1.energy < 30 THEN set_mood(c1, "TIRED")
                        ELSE set_mood(c1, "NORMAL"),
                        "WORK", None, t)
               [] new = "IDLE" ->
                    IF c1.energy > 70 /\ c1.happiness > 60
                    THEN set_action(set_mood(c1, "PLAYFUL"), "PLAY", Some(play), t)
                    ELSE IF c1.energy < 30
                    THEN set_action(set_mood(c1, "TIRED"), "REST", None, t)
                    ELSE set_action(set_mood(c1, "RELAXED"), "IDLE", None, t)
               [] new = "SLEEPING" ->
                    set_action(set_mood(c1, "SLEEPY"), "SLEEP", None, t)

(* _update_mood_based_on_stats whose neutral branches always give NORMAL.     *)
_update_mood_based_on_stats_resets(c) ==
    LET new_mood ==
            IF c.energy < energy_tired THEN "TIRED"
            ELSE IF c.happiness < happiness_sad THEN "SAD"
            ELSE IF c.energy > energy_happy_excited /\ c.happiness > happiness_happy_excited
            THEN (IF c.state = "WORKING" THEN "EXCITED" ELSE "HAPPY")
            ELSE "NORMAL"
    IN  IF c.mood # new_mood THEN set_mood(c, new_mood) ELSE c

_update_mood_based_on_stats(c) ==
    LET new_mood ==
            IF c.energy < energy_tired THEN "TIRED"
            ELSE IF c.happiness < happiness_sad THEN "SAD"
            ELSE IF c.energy > energy_happy_excited /\ c.happiness > happiness_happy_excited
            THEN (IF c.state = "WORKING" THEN "EXCITED" ELSE "HAPPY")
            ELSE IF c.energy > energy_normal /\ c.happiness > happiness_normal
            THEN (IF c.mood \notin {"TIRED", "SAD"} THEN "NORMAL" ELSE c.mood)
            ELSE (IF c.mood \notin {"TIRED", "SAD", "SLEEPY"} THEN "NORMAL" ELSE c.mood)
    IN  IF c.mood # new_mood THEN set_mood(c, new_mood) ELSE c

(* The expiry without the comparison against end_time.                       *)
expire_temporary_action_early(c, current_time) ==
    IF c.temporary_action_info # None
    THEN LET original_temporary_action == c.temporary_action_info[1].action
             c1 == _clear_temporary_action(c)
         IN  IF c1.current_action = original_temporary_action
             THEN set_action(c1, "IDLE", None, current_time)
             ELSE c1
    ELSE c

(* The expiry with > in place of >=.                                         *)
expire_temporary_action_strict(c, current_time) ==
    IF c.temporary_action_info # None
       /\ current_time > c.temporary_action_info[1].end_time
    THEN LET original_temporary_action == c.temporary_action_info[1].action
             c1 == _clear_temporary_action(c)
         IN  IF c1.current_action = original_temporary_action
             THEN set_action(c1, "IDLE", None, current_time)
             ELSE c1
    ELSE c

(* First part of update_pet_stats_periodically: the expiry of the temporary  *)
(* action.                                                                   *)
expire_temporary_action(c, current_time) ==
    IF c.temporary_action_info # None
       /\ current_time >= c.temporary_action_info[1].end_time
    THEN LET original_temporary_action == c.temporary_action_info[1].action
             c1 == _clear_temporary_action(c)
         IN  IF c1.current_action = original_temporary_action
             THEN set_action(c1, "IDLE", None, current_time)
             ELSE c1
    ELSE c

(* The vitals update without the max(0, ...) clamp of the Working branch.     *)
update_core_stats_unclamped(c, current_time) ==
    IF current_time - c.last_state_update >= state_update_interval
    THEN LET c1 == [c EXCEPT !.last_state_update = current_time]
             c2 == CASE c1.state = "WORKING" ->
                          [c1 EXCEPT !.energy = @ - energy_working,
                                     !.happiness = @ - happiness_working]
                     [] c1.state = "IDLE" ->
                          [c1 EXCEPT !.energy = Min(100, @ + energy_idle),
                                     !.happiness = IF c1.mood = "PLAYFUL"
                                                   THEN Min(100, @ + 1)
                                                   ELSE Max(0, @ - happiness_idle)]
                     [] c1.state = "SLEEPING" ->
                          [c1 EXCEPT !.energy = Min(100, @ + energy_sleeping),
                                     !.happiness = Min(100, @ + happiness_sleeping)]
             c3 == _update_mood_based_on_stats(c2)
             c4 == IF c3.energy < low_energy /\ c3.state = "WORKING"
                   THEN emit(IF c3.current_action # "ALERT"
                             THEN set_action(c3, "ALERT", Some(alert_low_energy), current_time)
                             ELSE c3,
                             "pet_alert", "low_energy", "")
                   ELSE c3
         IN  emit(c4, "pet_stats_updated", "", "")
    ELSE c

(* Second part of update_pet_stats_periodically: the vitals update.          *)
update_core_stats(c, current_time) ==
    IF current_time - c.last_state_update >= state_update_interval
    THEN LET c1 == [c EXCEPT !.last_state_update = current_time]
             c2 == CASE c1.state = "WORKING" ->
                          [c1 EXCEPT !.energy = Max(0, @ - energy_working),
                                     !.happiness = Max(0, @ - happiness_working)]
                     [] c1.state = "IDLE" ->
                          [c1 EXCEPT !.energy = Min(100, @ + energy_idle),
                                     !.happiness = IF c1.mood = "PLAYFUL"
                                                   THEN Min(100, @ + 1)
                                                   ELSE Max(0, @ - happiness_idle)]
                     [] c1.state = "SLEEPING" ->
                          [c1 EXCEPT !.energy = Min(100, @ + energy_sleeping),
                                     !.happiness = Min(100, @ + happiness_sleeping)]
             c3 == _update_mood_based_on_stats(c2)
             c4 == IF c3.energy < low_energy /\ c3.state = "WORKING"
                   THEN emit(IF c3.current_action # "ALERT"
                             THEN set_action(c3, "ALERT", Some(alert_low_energy), current_time)
                             ELSE c3,
                             "pet_alert", "low_energy", "")
                   ELSE c3
         IN  emit(c4, "pet_stats_updated", "", "")
    ELSE c

(* update_pet_stats_periodically that updates the vitals before it looks at  *)
(* the temporary action.                                                     *)
update_pet_stats_periodically_vitals_first(c, current_time) ==
    expire_temporary_action(update_core_stats(c, current_time), current_time)

update_pet_stats_periodically(c, current_time) ==
    update_core_stats(expire_temporary_action(c, current_time), current_time)

(* Event handlers.  The arguments after the time are the fields of the event *)
(* data the handler reads and the random draws it makes.                     *)

_on_programming_started(c, t, play, encourage) ==
    LET c1 == set_state(c, "WORKING", t, play)
    IN  IF encourage
        THEN set_action(c1, "ENCOURAGE", Some(encourage_work_start), t)
        ELSE c1

(* _on_programming_ended that sets TIRED without a duration.                 *)
_on_programming_ended_untimed(c, t, play, duration) ==
    LET c1 == set_state(c, "IDLE", t, play)
    IN  IF duration > work_long_for_tired
        THEN set_action(set_mood(c1, "TIRED"), "TIRED", None, t)
        ELSE IF duration > work_medium_for_happy
        THEN set_action(set_mood(c1, "HAPPY"), "HAPPY", Some(happy_after_medium_work), t)
        ELSE c1

(* _on_programming_ended with >= in place of > at both thresholds.           *)
_on_programming_ended_inclusive(c, t, play, duration) ==
    LET c1 == set_state(c, "IDLE", t, play)
    IN  IF duration >= work_long_for_tired
        THEN set_action(set_mood(c1, "TIRED"), "TIRED", Some(tired_after_long_work), t)
        ELSE IF duration >= work_medium_for_happy
        THEN set_action(set_mood(c1, "HAPPY"), "HAPPY", Some(happy_after_medium_work), t)
        ELSE c1

_on_programming_ended(c, t, play, duration) ==
    LET c1 == set_state(c, "IDLE", t, play)
    IN  IF duration > work_long_for_tired
        THEN set_action(set_mood(c1, "TIRED"), "TIRED", Some(tired_after_long_work), t)
        ELSE IF duration > work_medium_for_happy
        THEN set_action(set_mood(c1, "HAPPY"), "HAPPY", Some(happy_after_medium_work), t)
        ELSE c1

(* _on_programming_idle that leaves the WORKING state for IDLE when bored.   *)
_on_programming_idle_to_idle(c, t, play, idle_time) ==
    IF c.state = "WORKING"
    THEN IF idle_time > idle_to_sleep_in_work
         THEN set_state(c, "SLEEPING", t, play)
         ELSE emit(set_action(set_mood([c EXCEPT !.state = "IDLE"], "RELAXED"),
                              "REST", Some(rest_when_bored), t),
                   "user_maybe_afk", "", "")
    ELSE c

(* _on_programming_idle that lets a playing temporary action finish first.    *)
_on_programming_idle_keeps_temp(c, t, play, idle_time) ==
    IF c.state = "WORKING"
    THEN IF idle_time > idle_to_sleep_in_work /\ c.temporary_action_info = None
         THEN set_state(c, "SLEEPING", t, play)
         ELSE IF idle_time > idle_to_bored_in_work
         THEN emit(set_action(set_mood(c, "RELAXED"), "REST", Some(rest_when_bored), t),
                   "user_maybe_afk", "", "")
         ELSE c
    ELSE c

_on_programming_idle(c, t, play, idle_time) ==
    IF c.state = "WORKING"
    THEN IF idle_time > idle_to_sleep_in_work
         THEN set_state(c, "SLEEPING", t, play)
         ELSE IF idle_time > idle_to_bored_in_work
         THEN emit(set_action(set_mood(c, "RELAXED"), "REST", Some(rest_when_bored), t),
                   "user_maybe_afk", "", "")
         ELSE c
    ELSE c

(* _on_keypress that reacts in every state but SLEEPING.                     *)
_on_keypress_any_state(c, t, count, fire, reaction, duration) ==
    IF c.state = "SLEEPING"
    THEN emit(c, "user_activity_resumed", "keypress_during_sleep", "")
    ELSE IF count > 0 /\ keypress_reaction > 0 /\ count % keypress_reaction = 0
            /\ fire
    THEN IF reaction \in ActionType
         THEN set_action(c, reaction, Some(duration), t)
         ELSE c
    ELSE c

(* fire is random.random() < reaction_chance; reaction is random.choice.     *)
_on_keypress(c, t, count, fire, reaction, duration) ==
    IF c.state = "SLEEPING"
    THEN emit(c, "user_activity_resumed", "keypress_during_sleep", "")
    ELSE IF c.state = "WORKING"
            /\ count > 0 /\ keypress_reaction > 0 /\ count % keypress_reaction = 0
            /\ fire
    THEN IF reaction \in ActionType
         THEN set_action(c, reaction, Some(duration), t)
         ELSE c
    ELSE c

(* _on_achievement_unlocked that celebrates without setting the mood.        *)
_on_achievement_unlocked_keeps_mood(c, t) ==
    set_action(c, "CELEBRATE", Some(celebrate_achievement), t)

_on_achievement_unlocked(c, t) ==
    set_action(set_mood(c, "EXCITED"), "CELEBRATE", Some(celebrate_achievement), t)

_on_goal_reached(c, t) ==
    set_action(set_mood(c, "HAPPY"), "CELEBRATE", Some(celebrate_goal), t)

(* _on_pet_interaction without the final _update_mood_based_on_stats.        *)
_on_pet_interaction_no_recompute(c, t, play, type, character_name, surprised, react) ==
    IF character_name # pet_type
    THEN c
    ELSE IF type = "click" /\ c.state # "SLEEPING" /\ surprised
    THEN c
    ELSE LET c1 ==
                IF type = "click"
                THEN IF c.state = "SLEEPING"
                     THEN set_state(c, "IDLE", t, play)
                     ELSE LET a == set_action(set_mood(c, "PLAYFUL"), "REACT", Some(react), t)
                          IN  [a EXCEPT !.happiness = Min(100, @ + happiness_on_click)]
                ELSE IF type = "feed"
                THEN IF c.state # "SLEEPING"
                     THEN LET a == set_action(set_mood(c, "HAPPY"), "EAT", Some(eat), t)
                          IN  [a EXCEPT !.energy = Min(100, @ + energy_on_feed),
                                        !.happiness = Min(100, @ + happiness_on_feed)]
                     ELSE c
                ELSE c
         IN  emit(c1, "pet_stats_updated", "", "")

(* surprised is random.random() < 0.5; react is the draw of the duration.    *)
(* MoodType (model.py, lines 14-23) has no member SURPRISED: when the draw   *)
(* selects it, line 486 raises AttributeError before anything is changed,    *)
(* and EventSystem.emit (events.py, lines 92-98) logs the error and goes on. *)
_on_pet_interaction(c, t, play, type, character_name, surprised, react) ==
    IF character_name # pet_type
    THEN c
    ELSE IF type = "click" /\ c.state # "SLEEPING" /\ surprised
    THEN c
    ELSE LET c1 ==
                IF type = "click"
                THEN IF c.state = "SLEEPING"
                     THEN set_state(c, "IDLE", t, play)
                     ELSE LET a == set_action(set_mood(c, "PLAYFUL"), "REACT", Some(react), t)
                          IN  [a EXCEPT !.happiness = Min(100, @ + happiness_on_click)]
                ELSE IF type = "feed"
                THEN IF c.state # "SLEEPING"
                     THEN LET a == set_action(set_mood(c, "HAPPY"), "EAT", Some(eat), t)
                          IN  [a EXCEPT !.energy = Min(100, @ + energy_on_feed),
                                        !.happiness = Min(100, @ + happiness_on_feed)]
                     ELSE c
                ELSE c
         IN  emit(_update_mood_based_on_stats(c1), "pet_stats_updated", "", "")

(* shutdown that leaves the pending record in place.                         *)
shutdown_keeps_record(c) == c

shutdown(c) ==
    _clear_temporary_action(c)

-----------------------------------------------------------------------------
(* The specification of the controller by itself: every handler and every   *)
(* periodic update runs to completion before the next one starts.  The bus   *)
(* delivers the events in any order, whoever emits them; the producers and   *)
(* their threads stay as they are constructed.                               *)

(* The threads that call into the controller: the Qt main thread, the       *)
(* thread ActivityTracker.start creates, and the thread on which the         *)
(* keyboard hook calls KeyLogger._on_key_press.                              *)
Threads == {"main", "tracker", "keyboard"}

(* A thread outside set_action: no arguments, no locals.                     *)
NoCall == [action |-> "IDLE", duration |-> None, original |-> "IDLE", return |-> "idle"]

(* The state of the producers and of the threads they run on.               *)
producers == <<pc, local, is_programming, is_programming_mode>>

(* EventSystem.__init__ (events.py:20-26): no listeners, no emit made.        *)
BusInit ==
    /\ _listeners = [e \in {} |-> <<>>]
    /\ emit_event_name = ""
    /\ handlers_to_call = <<>>
    /\ position = 1
    /\ called = <<>>
    /\ emit_pc = "idle"
    /\ registrations = <<>>
    /\ bus_ops = 0
    /\ emits = 0

(* ActivityTracker.__init__ (tracker.py:48-55): not running, no session.     *)
SamplerInit ==
    /\ is_running = FALSE
    /\ programming_sessions = <<>>
    /\ total_programming_time = 0
    /\ slept = 0
    /\ keypress_count = 0

(* PetWindow.__init__ before load_character (window.py:33-35): no character, *)
(* no animator, the timer not started, the label empty.                      *)
UiInit ==
    /\ current_pet_character_name = None
    /\ animator = None
    /\ animation_timer = FALSE
    /\ pet_label = None

Init ==
    /\ BusInit
    /\ SamplerInit
    /\ UiInit
    /\ state = "IDLE"
    /\ mood = "NORMAL"
    /\ current_action = "IDLE"
    /\ energy = 100
    /\ happiness = 60
    /\ temporary_action_info = None
    /\ last_state_update = 0
    /\ now = 0
    /\ emitted = <<>>
    /\ handled = 0
    /\ pc = [t \in Threads |-> "idle"]
    /\ local = [t \in Threads |-> NoCall]
    /\ is_programming = FALSE
    /\ is_programming_mode = FALSE

Commit(c) ==
    /\ state' = c.state
    /\ mood' = c.mood
    /\ current_action' = c.current_action
    /\ energy' = c.energy
    /\ happiness' = c.happiness
    /\ temporary_action_info' = c.temporary_action_info
    /\ last_state_update' = c.last_state_update
    /\ emitted' = c.out
    /\ UNCHANGED <<bus, sampler, ui>>

PlayDurations == uniform(3, 7)
NoPlay == 0                         \* set_state never reads the draw on this path
Durations == {1800, 1801, 3600, 3601}
IdleTimes == {600, 601, 1800, 1801}
Counts == {0, 49, 50, 100}

(* The periodic timer: ClockStep seconds have passed since the last call.    *)
Tick ==
    /\ now + ClockStep <= MaxTime
    /\ now' = now + ClockStep
    /\ Commit(update_pet_stats_periodically(Self, now'))
    /\ UNCHANGED <<handled, producers>>

ProgrammingStarted ==
    /\ \E encourage \in BOOLEAN :
          Commit(_on_programming_started(Self, now, NoPlay, encourage))
    /\ handled < MaxEvents
    /\ handled' = handled + 1
    /\ UNCHANGED <<now, producers>>

ProgrammingEnded ==
    /\ \E play \in PlayDurations, duration \in Durations :
          Commit(_on_programming_ended(Self, now, play, duration))
    /\ handled < MaxEvents
    /\ handled' = handled + 1
    /\ UNCHANGED <<now, producers>>

ProgrammingIdle ==
    /\ \E idle_time \in IdleTimes :
          Commit(_on_programming_idle(Self, now, NoPlay, idle_time))
    /\ handled < MaxEvents
    /\ handled' = handled + 1
    /\ UNCHANGED <<now, producers>>

Keypress ==
    /\ \E count \in Counts :
          \/ Commit(_on_keypress(Self, now, count, FALSE, "SURPRISED", 0))
          \/ \E reaction \in on_keypress,
                duration \in uniform(keypress_reaction_min, keypress_reaction_max) :
                /\ state = "WORKING"
                /\ Commit(_on_keypress(Self, now, count, TRUE, reaction, duration))
    /\ handled < MaxEvents
    /\ handled' = handled + 1
    /\ UNCHANGED <<now, producers>>

AchievementUnlocked ==
    /\ Commit(_on_achievement_unlocked(Self, now))
    /\ handled < MaxEvents
    /\ handled' = handled + 1
    /\ UNCHANGED <<now, producers>>

GoalReached ==
    /\ Commit(_on_goal_reached(Self, now))
    /\ handled < MaxEvents
    /\ handled' = handled + 1
    /\ UNCHANGED <<now, producers>>

PetInteraction ==
    /\ \/ \E type \in {"feed", "pat"}, character_name \in {pet_type, "dog"} :
             Commit(_on_pet_interaction(Self, now, NoPlay, type, character_name, FALSE, 0))
       \/ \E play \in PlayDurations, surprised \in BOOLEAN,
             react \in uniform(react_min, react_max) :
             Commit(_on_pet_interaction(Self, now, play, "click", pet_type, surprised, react))
    /\ handled < MaxEvents
    /\ handled' = handled + 1
    /\ UNCHANGED <<now, producers>>

(* PetController.shutdown is public and the controller stays registered on   *)
(* the bus after it: ticks and events may still arrive.                      *)
Shutdown ==
    /\ Commit(shutdown(Self))
    /\ UNCHANGED <<now, handled, producers>>

Next ==
    \/ Tick
    \/ ProgrammingStarted
    \/ ProgrammingEnded
    \/ ProgrammingIdle
    \/ Keypress
    \/ AchievementUnlocked
    \/ GoalReached
    \/ PetInteraction
    \/ Shutdown

Spec == Init /\ [][Next]_vars

-----------------------------------------------------------------------------
(* The controller with a timer that may fire late: a timeout of the periodic *)
(* timer that is delivered two intervals after the one before it.  The bus   *)
(* delivers the events that start work and those that install a celebration. *)

LateTick ==
    /\ now + 2 * ClockStep <= MaxTime
    /\ now' = now + 2 * ClockStep
    /\ Commit(update_pet_stats_periodically(Self, now'))
    /\ UNCHANGED <<handled, producers>>

LateNext ==
    \/ Tick
    \/ LateTick
    \/ ProgrammingStarted
    \/ AchievementUnlocked
    \/ GoalReached

LateSpec == Init /\ [][LateNext]_vars

-----------------------------------------------------------------------------
(* The mood recomputation by itself: the pet starts with any mood, state and *)
(* vitals around the thresholds, and _update_mood_based_on_stats is applied. *)

Energies == {0, 19, 20, 29, 30, 60, 61, 80, 81, 100}
Happinesses == {0, 29, 30, 50, 51, 70, 71, 100}

MoodInit ==
    /\ BusInit
    /\ SamplerInit
    /\ UiInit
    /\ state \in StateType
    /\ mood \in MoodType
    /\ energy \in Energies
    /\ happiness \in Happinesses
    /\ current_action = "IDLE"
    /\ temporary_action_info = None
    /\ last_state_update = 0
    /\ now = 0
    /\ emitted = <<>>
    /\ handled = 0
    /\ pc = [t \in Threads |-> "idle"]
    /\ local = [t \in Threads |-> NoCall]
    /\ is_programming = FALSE
    /\ is_programming_mode = FALSE

Recompute ==
    /\ Commit(_update_mood_based_on_stats(Self))
    /\ UNCHANGED <<now, handled, producers>>

MoodNext ==
    \/ Recompute

MoodSpec == MoodInit /\ [][MoodNext]_vars

-----------------------------------------------------------------------------
(* The setters called directly, with members of their enumerations and with  *)
(* values that are none (controller.py:95, 128, 197), between periodic       *)
(* updates.  local["main"] holds the arguments of the last call and the      *)
(* name of the setter in its field return.                                   *)

(* Values that are members of no enumeration: an unknown name, and the value *)
(* of a member in place of the member.                                       *)
InvalidValues == {"DANCE", "idle"}
SetterActions == {"IDLE", "PLAY"} \cup InvalidValues
SetterMoods == {"NORMAL", "HAPPY"} \cup InvalidValues
SetterStates == StateType \cup InvalidValues
SetterDurations == {None, Some(ClockStep)}

Called(setter, value, duration) ==
    /\ local' = [local EXCEPT !["main"] =
                    [action |-> value, duration |-> duration,
                     original |-> @.original, return |-> setter]]
    /\ handled < MaxEvents
    /\ handled' = handled + 1
    /\ UNCHANGED <<now, pc, is_programming, is_programming_mode>>

SetAction ==
    \E a \in SetterActions, duration \in SetterDurations :
        /\ Commit(set_action(Self, a, duration, now))
        /\ Called("set_action", a, duration)

SetMood ==
    \E m \in SetterMoods :
        /\ Commit(set_mood(Self, m))
        /\ Called("set_mood", m, None)

SetState ==
    \E s \in SetterStates, play \in PlayDurations :
        /\ Commit(set_state(Self, s, now, play))
        /\ Called("set_state", s, None)

SetterNext ==
    \/ Tick
    \/ SetAction
    \/ SetMood
    \/ SetState

SetterSpec == Init /\ [][SetterNext]_vars

-----------------------------------------------------------------------------
(* The specification of the controller with its producers.  EventSystem.emit *)
(* calls the handlers on the thread that emits (events.py:90-94), so the     *)
(* handlers of programming_started and programming_ended run on the tracker  *)
(* thread, the handler of keypress on the keyboard hook thread, and the      *)
(* periodic update on the main thread.  (The tracker's programming_idle and  *)
(* the clicks on the window are left out of this specification.)  A thread runs the statements of      *)
(* set_action and of the expiry one group at a time; the threads interleave  *)
(* between the groups.  What a handler does before its last set_action call, *)
(* and the vitals update, are each taken as one step.                        *)

(* Thread t enters set_action(a, duration) and will go on at `return`.       *)
Call(t, a, duration, return) ==
    /\ pc' = [pc EXCEPT ![t] = "clear"]
    /\ local' = [local EXCEPT ![t] = [action |-> a, duration |-> duration,
                                      original |-> @.original, return |-> return]]

(* tracker.py:124-131: the tracker sees a programming window come to the     *)
(* front and emits programming_started.  On the tracker thread the KeyLogger *)
(* handler sets is_programming_mode and the PetController handler runs:      *)
(* set_state(WORKING), then by chance set_action(ENCOURAGE, duration).       *)
TrackerProgrammingStarted ==
    /\ pc["tracker"] = "idle"
    /\ ~is_programming
    /\ is_programming' = TRUE
    /\ is_programming_mode' = TRUE
    /\ handled < MaxEvents
    /\ handled' = handled + 1
    /\ Commit(set_state(Self, "WORKING", now, NoPlay))
    /\ \/ Call("tracker", "ENCOURAGE", Some(encourage_work_start), "idle")
       \/ UNCHANGED <<pc, local>>
    /\ UNCHANGED now

(* tracker.py:132-142: the programming window is left and the tracker emits  *)
(* programming_ended with the length of the session.  The handlers run on    *)
(* the tracker thread: set_state(IDLE), then for a long or a medium session  *)
(* set_mood and set_action(TIRED or HAPPY, duration).                        *)
TrackerProgrammingEnded ==
    /\ pc["tracker"] = "idle"
    /\ is_programming
    /\ is_programming' = FALSE
    /\ is_programming_mode' = FALSE
    /\ handled < MaxEvents
    /\ handled' = handled + 1
    /\ \E play \in PlayDurations, duration \in Durations :
          LET c1 == set_state(Self, "IDLE", now, play)
          IN  IF duration > work_long_for_tired
              THEN /\ Commit(set_mood(c1, "TIRED"))
                   /\ Call("tracker", "TIRED", Some(tired_after_long_work), "idle")
              ELSE IF duration > work_medium_for_happy
              THEN /\ Commit(set_mood(c1, "HAPPY"))
                   /\ Call("tracker", "HAPPY", Some(happy_after_medium_work), "idle")
              ELSE /\ Commit(c1)
                   /\ UNCHANGED <<pc, local>>
    /\ UNCHANGED now

(* keylogger.py:108-139: a key is pressed in programming mode and the hook   *)
(* emits keypress.  The PetController handler runs on the hook's thread: it  *)
(* reads the state, and when it decides to react it calls                    *)
(* set_action(reaction, duration).                                           *)
KeyboardKeypress ==
    /\ pc["keyboard"] = "idle"
    /\ is_programming_mode
    /\ handled < MaxEvents
    /\ handled' = handled + 1
    /\ \/ /\ \E count \in Counts :
                Commit(_on_keypress(Self, now, count, FALSE, "SURPRISED", 0))
          /\ UNCHANGED <<pc, local>>
       \/ /\ state = "WORKING"
          /\ \E reaction \in on_keypress,
                duration \in uniform(keypress_reaction_min, keypress_reaction_max) :
                Call("keyboard", reaction, Some(duration), "idle")
          /\ Commit(Self)
    /\ UNCHANGED now
    /\ UNCHANGED <<is_programming, is_programming_mode>>

(* The periodic timer fires on the main thread: update_pet_stats_periodically *)
(* reads the clock and starts with the expiry check.                         *)
TimerFires ==
    /\ pc["main"] = "idle"
    /\ now + ClockStep <= MaxTime
    /\ now' = now + ClockStep
    /\ pc' = [pc EXCEPT !["main"] = "expiry"]
    /\ Commit(Self)
    /\ UNCHANGED <<handled, local>>
    /\ UNCHANGED <<is_programming, is_programming_mode>>

(* controller.py:274-278: is a record pending and due?                       *)
ExpiryCheck ==
    /\ pc["main"] = "expiry"
    /\ IF temporary_action_info # None /\ now >= temporary_action_info[1].end_time
       THEN /\ local' = [local EXCEPT !["main"].original = temporary_action_info[1].action]
            /\ pc' = [pc EXCEPT !["main"] = "expiry_clear"]
       ELSE /\ pc' = [pc EXCEPT !["main"] = "vitals"]
            /\ UNCHANGED local
    /\ Commit(Self)
    /\ UNCHANGED <<now, handled>>
    /\ UNCHANGED <<is_programming, is_programming_mode>>

(* controller.py:279                                                         *)
ExpiryClear ==
    /\ pc["main"] = "expiry_clear"
    /\ Commit(_clear_temporary_action(Self))
    /\ pc' = [pc EXCEPT !["main"] = "expiry_compare"]
    /\ UNCHANGED <<now, handled, local>>
    /\ UNCHANGED <<is_programming, is_programming_mode>>

(* controller.py:282-285                                                     *)
ExpiryCompare ==
    /\ pc["main"] = "expiry_compare"
    /\ IF current_action = local["main"].original
       THEN Call("main", "IDLE", None, "vitals")
       ELSE /\ pc' = [pc EXCEPT !["main"] = "vitals"]
            /\ UNCHANGED local
    /\ Commit(Self)
    /\ UNCHANGED <<now, handled>>
    /\ UNCHANGED <<is_programming, is_programming_mode>>

(* controller.py:289-325                                                     *)
VitalsUpdate ==
    /\ pc["main"] = "vitals"
    /\ Commit(update_core_stats(Self, now))
    /\ pc' = [pc EXCEPT !["main"] = "idle"]
    /\ UNCHANGED <<now, handled, local>>
    /\ UNCHANGED <<is_programming, is_programming_mode>>

(* controller.py:148                                                         *)
SetActionClear ==
    \E t \in Threads :
        /\ pc[t] = "clear"
        /\ Commit(_clear_temporary_action(Self))
        /\ pc' = [pc EXCEPT ![t] = "assign"]
        /\ UNCHANGED <<now, handled, local>>
        /\ UNCHANGED <<is_programming, is_programming_mode>>

(* controller.py:150-185: the action is assigned and announced.              *)
SetActionAssign ==
    \E t \in Threads :
        /\ pc[t] = "assign"
        /\ Commit(set_action_assign(Self, local[t].action))
        /\ pc' = [pc EXCEPT ![t] = "record"]
        /\ UNCHANGED <<now, handled, local>>
        /\ UNCHANGED <<is_programming, is_programming_mode>>

(* controller.py:189-193: the record of a timed action is installed.         *)
SetActionRecord ==
    \E t \in Threads :
        /\ pc[t] = "record"
        /\ Commit(set_action_record(Self, local[t].action, local[t].duration, now))
        /\ pc' = [pc EXCEPT ![t] = local[t].return]
        /\ local' = [local EXCEPT ![t] = NoCall]
        /\ UNCHANGED <<now, handled>>
        /\ UNCHANGED <<is_programming, is_programming_mode>>

ThreadNext ==
    \/ TrackerProgrammingStarted
    \/ TrackerProgrammingEnded
    \/ KeyboardKeypress
    \/ TimerFires
    \/ ExpiryCheck
    \/ ExpiryClear
    \/ ExpiryCompare
    \/ VitalsUpdate
    \/ SetActionClear
    \/ SetActionAssign
    \/ SetActionRecord

ThreadSpec == Init /\ [][ThreadNext]_vars

-----------------------------------------------------------------------------
(* The event bus by itself (core/events.py).  Client code registers and      *)
(* unregisters handlers and emits events; a handler that emit calls returns, *)
(* raises an error, or registers or unregisters a handler on the same bus    *)
(* before it returns.  Handlers that emit in turn are left out.              *)

EventNames == {"USER_LOGIN", "ITEM_PURCHASED"}
Handlers == {"on_user_login", "on_user_login_notification", "faulty_handler"}
NotCallable == "not_callable"       \* a value for which callable() is False

MaxBusOps == 4
MaxEmits == 1

InList(h, list) == \E i \in 1..Len(list) : list[i] = h

(* list.remove(h): the first occurrence of h is taken out.                   *)
remove(list, h) ==
    LET i == CHOOSE i \in 1..Len(list) :
                 list[i] = h /\ \A j \in 1..(i - 1) : list[j] # h
    IN  SubSeq(list, 1, i - 1) \o SubSeq(list, i + 1, Len(list))

(* The handlers of event e in the dictionary l, none when e is not a key.    *)
registered(l, e) == IF e \in DOMAIN l THEN l[e] ELSE <<>>

(* register that appends without looking for the handler in the list.        *)
register_twice(l, e, handler) ==
    IF handler \notin Handlers
    THEN l
    ELSE [x \in DOMAIN l \cup {e} |->
             IF x = e THEN Append(registered(l, e), handler) ELSE l[x]]

(* register that puts the handler in front of the list.                      *)
register_in_front(l, e, handler) ==
    IF handler \notin Handlers
    THEN l
    ELSE IF InList(handler, registered(l, e))
    THEN l
    ELSE [x \in DOMAIN l \cup {e} |->
             IF x = e THEN <<handler>> \o registered(l, e) ELSE l[x]]

register(l, e, handler) ==
    IF handler \notin Handlers
    THEN l
    ELSE IF InList(handler, registered(l, e))
    THEN l
    ELSE [x \in DOMAIN l \cup {e} |->
             IF x = e THEN Append(registered(l, e), handler) ELSE l[x]]

unregister(l, e, handler) ==
    IF e \in DOMAIN l /\ InList(handler, l[e])
    THEN LET rest == remove(l[e], handler)
         IN  IF rest = <<>>
             THEN [x \in DOMAIN l \ {e} |-> l[x]]
             ELSE [l EXCEPT ![e] = rest]
    ELSE l

(* The for loop running over the dictionary's own list instead of the copy.  *)
iteration_live(copy, live) ==
    live

(* The list the for loop of emit runs over: list(self._listeners[...]).      *)
iteration(copy, live) ==
    copy

(* An emit whose try statement catches nothing.                              *)
caught_nothing(error) ==
    FALSE

(* except Exception (events.py:95): the errors of handlers are Exceptions.   *)
caught(error) ==
    error = "Exception"

(* One call of register or of unregister, by a client or by a handler.       *)
Registering(e, handler) ==
    /\ bus_ops < MaxBusOps
    /\ bus_ops' = bus_ops + 1
    /\ _listeners' = register(_listeners, e, handler)
    /\ registrations' = IF _listeners' # _listeners
                        THEN Append(registrations, <<e, handler>>)
                        ELSE registrations

Unregistering(e, handler) ==
    /\ bus_ops < MaxBusOps
    /\ bus_ops' = bus_ops + 1
    /\ _listeners' = unregister(_listeners, e, handler)
    /\ UNCHANGED registrations

(* What the bus actions leave alone.                                         *)
off_bus == <<pet, now, emitted, handled, producers, sampler, ui>>

Register ==
    /\ emit_pc # "dispatch"
    /\ \E e \in EventNames, handler \in Handlers \cup {NotCallable} : Registering(e, handler)
    /\ UNCHANGED <<emit_event_name, handlers_to_call, position, called, emit_pc, emits, off_bus>>

Unregister ==
    /\ emit_pc # "dispatch"
    /\ \E e \in EventNames, handler \in Handlers : Unregistering(e, handler)
    /\ UNCHANGED <<emit_event_name, handlers_to_call, position, called, emit_pc, emits, off_bus>>

(* events.py:88-90: emit looks the event up and copies its handler list.     *)
Emit ==
    /\ emit_pc # "dispatch"
    /\ emits < MaxEmits
    /\ emits' = emits + 1
    /\ \E e \in EventNames :
          /\ emit_event_name' = e
          /\ handlers_to_call' = registered(_listeners, e)
    /\ position' = 1
    /\ called' = <<>>
    /\ emit_pc' = "dispatch"
    /\ UNCHANGED <<_listeners, registrations, bus_ops, off_bus>>

(* The list the for loop is running over, and whether it has a next element. *)
Running == iteration(handlers_to_call, registered(_listeners, emit_event_name))
InLoop == emit_pc = "dispatch" /\ position <= Len(Running)

(* events.py:91-94: the next handler is called and returns.                  *)
HandlerReturns ==
    /\ InLoop
    /\ called' = Append(called, <<Running[position], "returned">>)
    /\ position' = position + 1
    /\ UNCHANGED <<_listeners, emit_event_name, handlers_to_call, emit_pc,
                   registrations, bus_ops, emits, off_bus>>

(* events.py:95-100: the next handler is called and raises.                  *)
HandlerRaises ==
    /\ InLoop
    /\ called' = Append(called, <<Running[position], "raised">>)
    /\ IF caught("Exception")
       THEN position' = position + 1 /\ UNCHANGED emit_pc
       ELSE emit_pc' = "propagated" /\ UNCHANGED position
    /\ UNCHANGED <<_listeners, emit_event_name, handlers_to_call,
                   registrations, bus_ops, emits, off_bus>>

(* The next handler is called, registers a handler and returns.              *)
HandlerRegisters ==
    /\ InLoop
    /\ \E e \in EventNames, handler \in Handlers : Registering(e, handler)
    /\ called' = Append(called, <<Running[position], "registered">>)
    /\ position' = position + 1
    /\ UNCHANGED <<emit_event_name, handlers_to_call, emit_pc, emits, off_bus>>

(* The next handler is called, unregisters a handler and returns.            *)
HandlerUnregisters ==
    /\ InLoop
    /\ \E e \in EventNames, handler \in Handlers : Unregistering(e, handler)
    /\ called' = Append(called, <<Running[position], "unregistered">>)
    /\ position' = position + 1
    /\ UNCHANGED <<emit_event_name, handlers_to_call, emit_pc, emits, off_bus>>

(* The for loop is at the end of its list: emit returns to the emitter.      *)
EmitReturns ==
    /\ emit_pc = "dispatch"
    /\ position > Len(Running)
    /\ emit_pc' = "returned"
    /\ UNCHANGED <<_listeners, emit_event_name, handlers_to_call, position, called,
                   registrations, bus_ops, emits, off_bus>>

BusNext ==
    \/ Register
    \/ Unregister
    \/ Emit
    \/ HandlerReturns
    \/ HandlerRaises
    \/ HandlerRegisters
    \/ HandlerUnregisters
    \/ EmitReturns

BusSpec == Init /\ [][BusNext]_vars

-----------------------------------------------------------------------------
(* The activity tracker by itself (core/activity/tracker.py): its thread     *)
(* runs _tracking_loop, which calls _check_active_window and sleeps.  A      *)
(* sample is the foreground window as the tracker classifies it, or the      *)
(* failure of the calls that read it, together with the system idle time.    *)
(* The events of the tracker are <<name, duration, idle_time>>.              *)

check_interval == 1
idle_threshold == 300
MaxSampleTime == 6

(* "programming": a window of a programming application or site; "other":    *)
(* any other window, or a process psutil cannot read (lines 107-109);        *)
(* "error": win32gui or win32process raises (lines 99-100).                  *)
Windows == {"programming", "other", "error"}
IdleSamples == {0, idle_threshold, idle_threshold + 1}

SelfTracker ==
    [is_running |-> is_running,
     is_programming |-> is_programming,
     programming_sessions |-> programming_sessions,
     total_programming_time |-> total_programming_time,
     raised |-> FALSE,
     slept |-> slept,
     out |-> <<>>]

(* programming_sessions[-1]['end_time'] is None                              *)
session_is_open(sessions) ==
    sessions # <<>> /\ sessions[Len(sessions)].end_time = None

_start_programming_session(k, t) ==
    [k EXCEPT !.programming_sessions =
                 Append(@, [start_time |-> t, end_time |-> None, duration |-> 0])]

(* The value _end_programming_session returns.                               *)
session_duration(k, t) ==
    IF session_is_open(k.programming_sessions)
    THEN t - k.programming_sessions[Len(k.programming_sessions)].start_time
    ELSE 0

_end_programming_session(k, t) ==
    IF session_is_open(k.programming_sessions)
    THEN LET n == Len(k.programming_sessions)
             duration == t - k.programming_sessions[n].start_time
         IN  [k EXCEPT !.programming_sessions[n].end_time = Some(t),
                       !.programming_sessions[n].duration = duration,
                       !.total_programming_time = @ + duration]
    ELSE k

(* _check_active_window that announces a session at every programming       *)
(* sample, changed or not.                                                   *)
_check_active_window_every_sample(k, t, window, idle_time) ==
    IF window = "error"
    THEN k
    ELSE LET k1 == [k EXCEPT !.is_programming = (window = "programming")]
             k2 == IF k1.is_programming
                   THEN _start_programming_session(
                            emit(k1, "programming_started", 0, 0), t)
                   ELSE emit(_end_programming_session(k1, t),
                             "programming_ended", session_duration(k1, t), 0)
         IN  IF idle_time > idle_threshold /\ k2.is_programming
             THEN emit([_end_programming_session(k2, t) EXCEPT !.is_programming = FALSE],
                       "programming_idle", session_duration(k2, t), idle_time)
             ELSE k2

(* Lines 97-158.  An error of the window calls leaves the method at line 99  *)
(* or 100, before any field is assigned, and is caught at line 157: the      *)
(* method returns without raising.                                           *)
_check_active_window(k, t, window, idle_time) ==
    IF window = "error"
    THEN k
    ELSE LET was_programming == k.is_programming
             k1 == [k EXCEPT !.is_programming = (window = "programming")]
             k2 == IF was_programming # k1.is_programming
                   THEN IF k1.is_programming
                        THEN _start_programming_session(
                                 emit(k1, "programming_started", 0, 0), t)
                        ELSE emit(_end_programming_session(k1, t),
                                  "programming_ended", session_duration(k1, t), 0)
                   ELSE k1
         IN  IF idle_time > idle_threshold /\ k2.is_programming
             THEN emit([_end_programming_session(k2, t) EXCEPT !.is_programming = FALSE],
                       "programming_idle", session_duration(k2, t), idle_time)
             ELSE k2

(* One pass of the while loop of _tracking_loop (lines 84-90): the check,    *)
(* then time.sleep(check_interval), or time.sleep(check_interval * 2) when   *)
(* the check raised.                                                         *)
_tracking_loop(k, t, window, idle_time) ==
    LET r == _check_active_window(k, t, window, idle_time)
    IN  [r EXCEPT !.slept = IF r.raised THEN check_interval * 2 ELSE check_interval]

(* What the tracker actions leave alone.                                     *)
off_tracker == <<pet, handled, pc, local, is_programming_mode, bus, keypress_count, ui>>

CommitTracker(k) ==
    /\ is_running' = k.is_running
    /\ is_programming' = k.is_programming
    /\ programming_sessions' = k.programming_sessions
    /\ total_programming_time' = k.total_programming_time
    /\ slept' = k.slept
    /\ emitted' = k.out
    /\ UNCHANGED off_tracker

(* start, lines 63-71.                                                       *)
TrackerStart ==
    /\ ~is_running
    /\ CommitTracker([SelfTracker EXCEPT !.is_running = TRUE])
    /\ UNCHANGED now

(* stop, lines 73-78.                                                        *)
TrackerStop ==
    /\ is_running
    /\ CommitTracker([SelfTracker EXCEPT !.is_running = FALSE])
    /\ UNCHANGED now

(* One pass of the loop: the sample is taken at time now, and the thread     *)
(* sleeps until now'.                                                        *)
SamplerTick ==
    /\ is_running
    /\ now < MaxSampleTime
    /\ \E window \in Windows, idle_time \in IdleSamples :
          CommitTracker(_tracking_loop(SelfTracker, now, window, idle_time))
    /\ now' = now + slept'

TrackerNext ==
    \/ TrackerStart
    \/ TrackerStop
    \/ SamplerTick

TrackerSpec == Init /\ [][TrackerNext]_vars

-----------------------------------------------------------------------------
(* The daily statistics of the tracker (tracker.py:217-252).  Nothing in     *)
(* the repository calls them; a caller may do so between two passes of the   *)
(* loop, at the time the pass has slept to.                                  *)

MaxSessions == 3

(* get_daily_stats that closes the running session and leaves it closed.     *)
get_daily_stats_no_restart(k, t) ==
    IF k.is_programming /\ session_is_open(k.programming_sessions)
    THEN _end_programming_session(k, t)
    ELSE k

(* Lines 225-228: a running session is closed into the total and a new one   *)
(* is started at once.  The dictionary returned (lines 230-243) reads the    *)
(* fields and changes none.                                                  *)
get_daily_stats(k, t) ==
    IF k.is_programming /\ session_is_open(k.programming_sessions)
    THEN _start_programming_session(_end_programming_session(k, t), t)
    ELSE k

(* reset_daily_stats that keeps the accumulated total.                       *)
reset_daily_stats_keeps_total(k, t) ==
    LET k1 == [k EXCEPT !.programming_sessions = <<>>]
    IN  IF k1.is_programming THEN _start_programming_session(k1, t) ELSE k1

(* Lines 247-251.                                                            *)
reset_daily_stats(k, t) ==
    LET k1 == [k EXCEPT !.total_programming_time = 0,
                        !.programming_sessions = <<>>]
    IN  IF k1.is_programming THEN _start_programming_session(k1, t) ELSE k1

GetDailyStats ==
    /\ Len(programming_sessions) < MaxSessions
    /\ CommitTracker(get_daily_stats(SelfTracker, now))
    /\ UNCHANGED now

ResetDailyStats ==
    /\ CommitTracker(reset_daily_stats(SelfTracker, now))
    /\ UNCHANGED now

StatsNext ==
    \/ TrackerStart
    \/ TrackerStop
    \/ SamplerTick
    \/ GetDailyStats
    \/ ResetDailyStats

StatsSpec == Init /\ [][StatsNext]_vars

-----------------------------------------------------------------------------
(* The keylogger (core/activity/keylogger.py) next to the tracker.  The      *)
(* keylogger registers its three handlers with the bus (lines 57-59), so an  *)
(* emit of the tracker runs them before it returns.  The keyboard hook calls *)
(* _on_key_press for every key.  A keypress event is <<"keypress", count, 0>>.*)

MaxKeypresses == 3

SelfKeyLogger ==
    [is_programming_mode |-> is_programming_mode,
     keypress_count |-> keypress_count,
     out |-> <<>>]

(* _on_key_press that counts and announces a key whatever the mode.          *)
_on_key_press_any_mode(g) ==
    LET g1 == [g EXCEPT !.keypress_count = @ + 1]
    IN  emit(g1, "keypress", g1.keypress_count, 0)

(* Lines 116-139: nothing without the programming mode; otherwise the count  *)
(* goes up by one and the event carries the new count.                       *)
_on_key_press(g) ==
    IF ~g.is_programming_mode
    THEN g
    ELSE LET g1 == [g EXCEPT !.keypress_count = @ + 1]
         IN  emit(g1, "keypress", g1.keypress_count, 0)

(* KeyLogger._on_programming_started, line 148.                              *)
KeyLogger_on_programming_started(g) ==
    [g EXCEPT !.is_programming_mode = TRUE]

(* KeyLogger._on_programming_ended, line 158.                                *)
KeyLogger_on_programming_ended(g) ==
    [g EXCEPT !.is_programming_mode = FALSE]

(* KeyLogger._on_programming_idle, line 168.                                 *)
KeyLogger_on_programming_idle(g) ==
    [g EXCEPT !.is_programming_mode = FALSE]

(* KeyLogger.reset_daily_stats, lines 190-192.                               *)
KeyLogger_reset_daily_stats(g) ==
    [g EXCEPT !.keypress_count = 0]

RECURSIVE KeyLogger_handle(_, _)
(* The keylogger's handlers run for the events of a log, in order.           *)
KeyLogger_handle(g, log) ==
    IF log = <<>>
    THEN g
    ELSE LET name == Head(log)[1]
             g1 == IF name = "programming_started"
                   THEN KeyLogger_on_programming_started(g)
                   ELSE IF name = "programming_ended"
                   THEN KeyLogger_on_programming_ended(g)
                   ELSE IF name = "programming_idle"
                   THEN KeyLogger_on_programming_idle(g)
                   ELSE g
         IN  KeyLogger_handle(g1, Tail(log))

(* What the keylogger actions leave alone.                                   *)
off_keylogger == <<pet, handled, pc, local, bus, ui>>

CommitKeyLogger(g) ==
    /\ is_programming_mode' = g.is_programming_mode
    /\ keypress_count' = g.keypress_count
    /\ UNCHANGED off_keylogger

(* One pass of the tracking loop with the keylogger listening.               *)
KeyLoggerSamplerTick ==
    /\ is_running
    /\ now < MaxSampleTime
    /\ \E window \in Windows, idle_time \in IdleSamples :
          LET k == _tracking_loop(SelfTracker, now, window, idle_time)
          IN  /\ is_programming' = k.is_programming
              /\ programming_sessions' = k.programming_sessions
              /\ total_programming_time' = k.total_programming_time
              /\ slept' = k.slept
              /\ emitted' = k.out
              /\ CommitKeyLogger(KeyLogger_handle(SelfKeyLogger, k.out))
    /\ now' = now + slept'
    /\ UNCHANGED is_running

(* The keyboard hook reports a key.                                          *)
KeyPress ==
    /\ keypress_count < MaxKeypresses
    /\ LET g == _on_key_press(SelfKeyLogger)
       IN  /\ CommitKeyLogger(g)
           /\ emitted' = g.out
    /\ UNCHANGED <<now, is_programming, is_running, programming_sessions,
                   total_programming_time, slept>>

KeyLoggerReset ==
    /\ LET g == KeyLogger_reset_daily_stats(SelfKeyLogger)
       IN  /\ CommitKeyLogger(g)
           /\ emitted' = g.out
    /\ UNCHANGED <<now, is_programming, is_running, programming_sessions,
                   total_programming_time, slept>>

KeyNext ==
    \/ TrackerStart
    \/ TrackerStop
    \/ KeyLoggerSamplerTick
    \/ KeyPress
    \/ KeyLoggerReset

KeySpec == Init /\ [][KeyNext]_vars

-----------------------------------------------------------------------------
(* The window and its animator (ui/window.py, ui/animator.py).  An animation *)
(* is named after its action; its folder holds the frames of the action.  A  *)
(* frame is <<name, index>>, the null QPixmap is None.  The label shows      *)
(* <<"pixmap", frame>> or <<"text", reason>>.  Every animation plays at the  *)
(* default speed, so the timer's interval never changes.                     *)

MaxFrames == 3

(* The folders a character may have, and the frames a folder may hold: a     *)
(* folder without frames is cached as an empty list (animator.py:83-86).     *)
AnimationNames == {"IDLE", "WORK", "PLAY"}
FrameCounts == {0, 1, MaxFrames}

(* The actions a ui_play_animation event may ask for: "REACT" has no folder, *)
(* "" is an event without action_name.                                       *)
RequestedNames == AnimationNames \cup {"REACT", ""}
CharacterNames == {pet_type, "dog"}

DEFAULT_ACTION_ANIMATION == "IDLE"

Frames(name, n) == [i \in 1..n |-> <<name, i - 1>>]

(* load_animation_sequence, lines 68-77, for a cache filled by               *)
(* load_all_animations_from_subfolders: a cached name is not read again, a   *)
(* name that is not cached has no folder and is cached as empty.             *)
load_animation_sequence(a, animation_name) ==
    IF animation_name \in DOMAIN a._animations
    THEN a
    ELSE [a EXCEPT !._animations = @ @@ (animation_name :> <<>>)]

(* The value load_animation_sequence returns.                                *)
load_animation_sequence_return(a, animation_name) ==
    /\ animation_name \in DOMAIN a._animations
    /\ a._animations[animation_name] # <<>>

(* Lines 116-143.  After a load that returned True the cached list is not    *)
(* empty, so the branch of lines 138-143 is never taken.                     *)
set_current_animation(a, animation_name) ==
    LET a1 == load_animation_sequence(a, animation_name)
    IN  IF ~load_animation_sequence_return(a, animation_name)
        THEN IF a1._current_frames # <<>>
             THEN a1
             ELSE [a1 EXCEPT !._current_animation_name = None,
                             !._current_frames = <<>>,
                             !._current_frame_index = 0]
        ELSE [a1 EXCEPT !._current_animation_name = Some(animation_name),
                        !._current_frames = a1._animations[animation_name],
                        !._current_frame_index = 0]

(* The value set_current_animation returns.                                  *)
set_current_animation_return(a, animation_name) ==
    load_animation_sequence_return(a, animation_name)

(* next_frame that returns the frame it was at and then moves on.            *)
next_frame_return_old(a) ==
    IF a._current_frames = <<>>
    THEN None
    ELSE a._current_frames[a._current_frame_index + 1]

(* Lines 146-148.                                                            *)
next_frame(a) ==
    IF a._current_frames = <<>>
    THEN a
    ELSE [a EXCEPT !._current_frame_index = (@ + 1) % Len(a._current_frames)]

(* The value next_frame returns, lines 147 and 149.                          *)
next_frame_return(a) ==
    IF a._current_frames = <<>>
    THEN None
    ELSE next_frame(a)._current_frames[next_frame(a)._current_frame_index + 1]

(* Lines 152-155.                                                            *)
get_current_frame_pixmap(a) ==
    IF \/ a._current_frames = <<>>
       \/ ~(0 <= a._current_frame_index /\ a._current_frame_index < Len(a._current_frames))
    THEN None
    ELSE a._current_frames[a._current_frame_index + 1]

(* Animator.__init__, lines 23-41: animations is what                        *)
(* load_all_animations_from_subfolders caches, first is the animation the    *)
(* loop of lines 38-41 meets first among those with frames (the order of     *)
(* the dictionary is the order of os.listdir).                               *)
Animator(animations, first) ==
    LET a0 == [_animations |-> animations,
               _current_animation_name |-> None,
               _current_frames |-> <<>>,
               _current_frame_index |-> 0]
        a1 == set_current_animation(a0, DEFAULT_ACTION_ANIMATION)
    IN  IF set_current_animation_return(a0, DEFAULT_ACTION_ANIMATION)
        THEN a1
        ELSE IF animations[first] # <<>>
        THEN set_current_animation(a1, first)
        ELSE a1

SelfWindow ==
    [current_pet_character_name |-> current_pet_character_name,
     animator |-> animator,
     animation_timer |-> animation_timer,
     pet_label |-> pet_label]

(* load_character, lines 151-205; exists says whether the character has a    *)
(* directory.                                                                *)
load_character(w, character_name, exists, animations, first) ==
    IF ~exists
    THEN [w EXCEPT !.animation_timer = FALSE,
                   !.pet_label = <<"text", "character not found">>,
                   !.current_pet_character_name = None,
                   !.animator = None]
    ELSE LET a == Animator(animations, first)
             w1 == [w EXCEPT !.animation_timer = FALSE,
                             !.current_pet_character_name = Some(character_name)]
         IN  IF a._current_frames # <<>>
             THEN [w1 EXCEPT !.animator = Some(a),
                             !.pet_label = IF get_current_frame_pixmap(a) # None
                                           THEN <<"pixmap", get_current_frame_pixmap(a)>>
                                           ELSE <<"text", "waiting">>]
             ELSE [w1 EXCEPT !.animator = None,
                             !.pet_label = <<"text", "load failed">>]

(* play_animation, lines 216-258.                                            *)
play_animation(w, animation_name) ==
    IF w.animator = None
    THEN w
    ELSE LET a == w.animator[1]
             a1 == set_current_animation(a, animation_name)
             w1 == [w EXCEPT !.animator = Some(a1)]
         IN  IF set_current_animation_return(a, animation_name)
             THEN IF a1._current_frames # <<>>
                  THEN IF get_current_frame_pixmap(a1) # None
                       THEN [w1 EXCEPT !.pet_label = <<"pixmap", get_current_frame_pixmap(a1)>>,
                                       !.animation_timer = TRUE]
                       ELSE [w1 EXCEPT !.pet_label = <<"text", "first frame error">>,
                                       !.animation_timer = FALSE]
                  ELSE [w1 EXCEPT !.pet_label = <<"text", "no frames">>,
                                  !.animation_timer = FALSE]
             ELSE [w1 EXCEPT !.pet_label = <<"text", "cannot play">>,
                             !.animation_timer = FALSE]

(* Lines 81-101, for the event handle_play_animation_event has passed on to  *)
(* the main thread.  The mood of the event is not read.                      *)
_process_play_animation_event(w, character_name, action_name) ==
    IF w.current_pet_character_name = Some(character_name) /\ action_name # ""
    THEN play_animation([w EXCEPT !.animation_timer = FALSE], action_name)
    ELSE w

(* update_animation, lines 267-286.                                          *)
update_animation(w) ==
    IF w.animator # None /\ w.animator[1]._current_frames # <<>>
    THEN LET a == w.animator[1]
             next_pixmap == next_frame_return(a)
             w1 == [w EXCEPT !.animator = Some(next_frame(a))]
         IN  IF next_pixmap # None
             THEN [w1 EXCEPT !.pet_label = <<"pixmap", next_pixmap>>]
             ELSE [w1 EXCEPT !.animation_timer = FALSE,
                             !.pet_label = <<"text", "frame error">>]
    ELSE w

(* What the window leaves alone.                                             *)
off_ui == <<pet, now, emitted, handled, producers, bus, sampler>>

CommitWindow(w) ==
    /\ current_pet_character_name' = w.current_pet_character_name
    /\ animator' = w.animator
    /\ animation_timer' = w.animation_timer
    /\ pet_label' = w.pet_label
    /\ UNCHANGED off_ui

LoadCharacter ==
    /\ \E exists \in BOOLEAN, counts \in [AnimationNames -> FrameCounts],
          first \in AnimationNames :
           LET w == load_character(SelfWindow, pet_type, exists,
                                   [n \in AnimationNames |-> Frames(n, counts[n])],
                                   first)
           IN  CommitWindow(w)

(* A ui_play_animation event reaches the main thread.                        *)
PlayAnimationEvent ==
    /\ \E character_name \in CharacterNames, action_name \in RequestedNames :
           LET w == _process_play_animation_event(SelfWindow, character_name,
                                                  action_name)
           IN  CommitWindow(w)

(* The animation timer fires.                                                *)
UpdateAnimation ==
    /\ animation_timer
    /\ CommitWindow(update_animation(SelfWindow))

AnimNext ==
    \/ LoadCharacter
    \/ PlayAnimationEvent
    \/ UpdateAnimation

AnimSpec == Init /\ [][AnimNext]_vars

-----------------------------------------------------------------------------
(* The tracker with the controller listening.  The controller registers its  *)
(* handlers with the bus (controller.py:80-82), so an emit of the tracker    *)
(* runs them before it returns, on the tracker's thread; the periodic update *)
(* of the controller runs between two passes of the tracking loop.           *)

(* The idle times of IdleSamples and one above each threshold of the         *)
(* controller.                                                               *)
PetIdleSamples ==
    IdleSamples \cup {idle_to_bored_in_work + 1, idle_to_sleep_in_work + 1}

RECURSIVE PetController_handle(_, _, _, _, _)
(* The events of a log emitted one after the other, each followed by what    *)
(* the controller's handler for it emits.                                    *)
PetController_handle(c, log, t, play, encourage) ==
    IF log = <<>>
    THEN c
    ELSE LET e == Head(log)
             c0 == [c EXCEPT !.out = Append(@, e)]
             c1 == IF e[1] = "programming_started"
                   THEN _on_programming_started(c0, t, play, encourage)
                   ELSE IF e[1] = "programming_ended"
                   THEN _on_programming_ended(c0, t, play, e[2])
                   ELSE IF e[1] = "programming_idle"
                   THEN _on_programming_idle(c0, t, play, e[3])
                   ELSE c0
         IN  PetController_handle(c1, Tail(log), t, play, encourage)

(* One pass of the tracking loop with the controller listening.              *)
PetSamplerTick ==
    /\ is_running
    /\ now < MaxSampleTime
    /\ \E window \in Windows, idle_time \in PetIdleSamples,
          play \in PlayDurations, encourage \in BOOLEAN :
          LET k == _tracking_loop(SelfTracker, now, window, idle_time)
              c == PetController_handle(Self, k.out, now, play, encourage)
          IN  /\ is_programming' = k.is_programming
              /\ programming_sessions' = k.programming_sessions
              /\ total_programming_time' = k.total_programming_time
              /\ slept' = k.slept
              /\ state' = c.state
              /\ mood' = c.mood
              /\ current_action' = c.current_action
              /\ energy' = c.energy
              /\ happiness' = c.happiness
              /\ temporary_action_info' = c.temporary_action_info
              /\ last_state_update' = c.last_state_update
              /\ emitted' = c.out
    /\ now' = now + slept'
    /\ UNCHANGED <<is_running, keypress_count, handled, pc, local,
                   is_programming_mode, bus, ui>>

PetNext ==
    \/ TrackerStart
    \/ TrackerStop
    \/ PetSamplerTick
    \/ Tick

PetSpec == Init /\ [][PetNext]_vars

-----------------------------------------------------------------------------
(* Helpers of the properties.                                                *)

Has(log, e) == \E i \in 1..Len(log) : log[i] = e
Events(log, name) == SelectSeq(log, LAMBDA e : e[1] = name)

(* The change events of one kind in log lead from the value `from` to the    *)
(* value `to`, each of them a real change.                                   *)
Chain(log, from, to) ==
    IF log = <<>>
    THEN from = to
    ELSE /\ log[1][2] = from
         /\ log[Len(log)][3] = to
         /\ \A i \in 1..Len(log) : log[i][2] # log[i][3]
         /\ \A i \in 1..(Len(log) - 1) : log[i][3] = log[i + 1][2]

IsTick == now' # now
AlertInstalled(log) == \E i \in 1..Len(log) : log[i][1] = "ui_play_animation" /\ log[i][2] = "ALERT"
Pending == temporary_action_info # None

-----------------------------------------------------------------------------
(* C1: over every sequence of set_action calls, ticks and bus events at most *)
(* one temporary-action record exists, and a record that is present names    *)
(* the model's current_action.                                               *)
C1_OneRecordNamesCurrentAction ==
    /\ Len(temporary_action_info) <= 1
    /\ Pending => temporary_action_info[1].action = current_action

C1_Witness ==
    /\ Pending
    /\ handled >= 2
    /\ now > 0
    /\ current_action = "CELEBRATE"

(* C2: a tick changes current_action only by reverting, to IDLE, the action  *)
(* that the pending record names once that record is due (or by raising the  *)
(* low-energy ALERT): a temporary action that a newer set_action superseded  *)
(* never overrides the newer action at a later tick.                         *)
C2_NoLateOverride ==
    [][(IsTick /\ current_action' # current_action /\ current_action' # "ALERT")
         => /\ Pending
            /\ temporary_action_info[1].action = current_action
            /\ now' >= temporary_action_info[1].end_time
            /\ current_action' = "IDLE"]_vars

(* CELEBRATE was installed over WORK, WORK was set again before the expiry,  *)
(* and a tick has passed since.                                              *)
C2_Witness ==
    /\ state = "WORKING"
    /\ mood = "EXCITED"
    /\ current_action = "WORK"
    /\ ~Pending
    /\ now >= celebrate_achievement
    /\ now < state_update_interval
    /\ emitted = <<>>

C4_SetActionClearsPending ==
    \A a \in ActionType :
        /\ \A d \in {None, Some(0), Some(-1)} :
              LET r == set_action(Self, a, d, now)
              IN  /\ r.temporary_action_info = None
                  /\ r.current_action = a
                  /\ \A later \in {now, now + ClockStep, MaxTime + rest_when_bored} :
                        expire_temporary_action(r, later) = r
        /\ \A d \in {1, rest_when_bored} :
              set_action(Self, a, Some(d), now).temporary_action_info
                 = Some([action |-> a, end_time |-> now + d])

(* programming_started has set WORK, without a duration, over a pending      *)
(* CELEBRATE record.                                                         *)
C4_Witness ==
    /\ ~Pending
    /\ current_action = "WORK"
    /\ emitted = << <<"ui_play_animation", "WORK", "EXCITED">>,
                    <<"pet_action_changed", "CELEBRATE", "WORK">> >>

(* C5: handlers and the periodic update run on one consuming thread: at no   *)
(* time are two threads inside the controller (in a handler, in set_action   *)
(* or in the periodic update) together.                                      *)
C5_OneThreadInController ==
    Cardinality({t \in Threads : pc[t] # "idle"}) <= 1

(* C6: with the tracker thread, the keyboard thread and the periodic update  *)
(* running together, the bookkeeping stays consistent: once every thread has *)
(* returned from the controller, a pending record names the current action.  *)
C6_RecordNamesCurrentActionAtRest ==
    (\A t \in Threads : pc[t] = "idle")
        => (Pending => temporary_action_info[1].action = current_action)

(* C7: set_mood emits pet_mood_changed exactly when the mood changes: a call *)
(* with the current mood returns the controller untouched, a call with       *)
(* another mood emits one event carrying the old and the new mood, and a     *)
(* second call with the same mood emits nothing more; in every step of the   *)
(* controller the pet_mood_changed events lead from the old mood to the new. *)
C7_SetMoodContract ==
    \A m \in MoodType :
        LET r == set_mood(Self, m)
        IN  /\ m = mood => r = Self
            /\ m # mood => /\ r.mood = m
                           /\ r.out = << <<"pet_mood_changed", mood, m>> >>
            /\ set_mood(r, m) = r

C7_MoodChangedIffChanged ==
    /\ []C7_SetMoodContract
    /\ [][Chain(Events(emitted', "pet_mood_changed"), mood, mood')]_vars

(* goal_reached handled with the mood already HAPPY: the action is announced *)
(* and no pet_mood_changed is emitted.                                       *)
C7_Witness ==
    /\ mood = "HAPPY"
    /\ current_action = "CELEBRATE"
    /\ handled >= 2
    /\ emitted = << <<"ui_play_animation", "CELEBRATE", "HAPPY">> >>

(* C8: pet_action_changed and pet_state_changed are emitted exactly when     *)
(* the action, respectively the state, changes, with the old and the new     *)
(* value as payload.                                                         *)
C8_SetterContract ==
    /\ \A a \in ActionType :
          Events(set_action(Self, a, None, now).out, "pet_action_changed")
             = IF a = current_action
               THEN <<>>
               ELSE << <<"pet_action_changed", current_action, a>> >>
    /\ \A s \in StateType, play \in PlayDurations :
          Events(set_state(Self, s, now, play).out, "pet_state_changed")
             = IF s = state
               THEN <<>>
               ELSE << <<"pet_state_changed", state, s>> >>

C8_ChangeEventsIffChanged ==
    /\ []C8_SetterContract
    /\ [][/\ Chain(Events(emitted', "pet_action_changed"), current_action, current_action')
          /\ Chain(Events(emitted', "pet_state_changed"), state, state')]_vars

(* A keypress reaction has set ENCOURAGE while ENCOURAGE was already the     *)
(* action: the animation is announced again and no change event is emitted.  *)
C8_Witness ==
    /\ state = "WORKING"
    /\ current_action = "ENCOURAGE"
    /\ handled >= 2
    /\ emitted = << <<"ui_play_animation", "ENCOURAGE", mood>> >>

(* C9: energy and happiness stay within [0, 100] in every reachable state.   *)
C9_VitalsInRange ==
    /\ energy \in 0..100
    /\ happiness \in 0..100

(* Working since the start: energy has reached 0 and a further update has    *)
(* been clamped there.                                                       *)
C9_Witness ==
    /\ state = "WORKING"
    /\ energy = 0
    /\ happiness = 0
    /\ now >= 6 * state_update_interval

(* C10: in every state with State Working, handling programming_idle with    *)
(* idle_time > 1800 gives State Sleeping, mood Sleepy, action Sleep and no   *)
(* pending record.                                                           *)
C10_LongIdleSleeps ==
    state = "WORKING" =>
        \A idle_time \in {idle_to_sleep_in_work + 1, 2 * idle_to_sleep_in_work} :
            LET r == _on_programming_idle(Self, now, NoPlay, idle_time)
            IN  /\ r.state = "SLEEPING"
                /\ r.mood = "SLEEPY"
                /\ r.current_action = "SLEEP"
                /\ r.temporary_action_info = None

(* programming_idle has put a Working, Excited, celebrating pet to sleep.    *)
C10_Witness ==
    /\ state = "SLEEPING"
    /\ mood = "SLEEPY"
    /\ current_action = "SLEEP"
    /\ ~Pending
    /\ emitted = << <<"pet_state_changed", "WORKING", "SLEEPING">>,
                    <<"pet_mood_changed", "EXCITED", "SLEEPY">>,
                    <<"ui_play_animation", "SLEEP", "SLEEPY">>,
                    <<"pet_action_changed", "CELEBRATE", "SLEEP">> >>

-----------------------------------------------------------------------------
(* The transitions of the controller, handler by handler.                    *)

(* The pet and the controller's bookkeeping are in r as they are now.        *)
SamePet(r) == [r EXCEPT !.out = <<>>] = Self

(* The mood set_state selects on entering WORKING (lines 238-240).           *)
WorkingEntryMood ==
    IF energy > 70 THEN "HAPPY" ELSE IF energy < 30 THEN "TIRED" ELSE "NORMAL"

(* The action set_state selects on entering IDLE (lines 245-254).            *)
IdleEntryAction ==
    IF energy > 70 /\ happiness > 60 THEN "PLAY"
    ELSE IF energy < 30 THEN "REST"
    ELSE "IDLE"

(* The record that names action a and ends d seconds from now.               *)
Timed(a, d) == Some([action |-> a, end_time |-> now + d])

C12_HandlerContract ==
    state = "WORKING" =>
        \A play \in PlayDurations, duration \in {work_long_for_tired + 1, 4000} :
            LET r == _on_programming_ended(Self, now, play, duration)
                end_time == now + tired_after_long_work
                before == update_pet_stats_periodically(r, end_time - 1)
            IN  /\ r.state = "IDLE"
                /\ r.mood = "TIRED"
                /\ r.current_action = "TIRED"
                /\ r.temporary_action_info = Timed("TIRED", tired_after_long_work)
                /\ before.current_action = "TIRED"
                /\ before.temporary_action_info = r.temporary_action_info
                /\ \A t \in {end_time, end_time + ClockStep} :
                      LET after == update_pet_stats_periodically(r, t)
                      IN  /\ after.current_action = "IDLE"
                          /\ after.temporary_action_info = None
                          /\ after.state = "IDLE"

C12_LongSessionTiredThenIdle ==
    /\ []C12_HandlerContract
    /\ [][(IsTick /\ state = "IDLE" /\ Pending /\ current_action = "TIRED")
            => IF now' >= temporary_action_info[1].end_time
               THEN current_action' = "IDLE" /\ temporary_action_info' = None
               ELSE /\ current_action' = "TIRED"
                    /\ temporary_action_info' = temporary_action_info]_vars

(* A tick has reverted the TIRED action of a long session to IDLE.           *)
C12_Witness ==
    /\ state = "IDLE"
    /\ mood = "TIRED"
    /\ current_action = "IDLE"
    /\ ~Pending
    /\ Has(emitted, <<"pet_action_changed", "TIRED", "IDLE">>)

(* C13: programming_ended with 1800 < duration <= 3600 gives state IDLE,     *)
(* mood HAPPY and action HAPPY as the one pending timed action, which the    *)
(* tick at its end reverts to IDLE; duration 3600 takes this branch, 1800    *)
(* takes the plain entry into IDLE and 3601 the TIRED branch.                *)
C13_MediumSessionHappy ==
    \A play \in PlayDurations :
        /\ \A duration \in {work_medium_for_happy + 1, work_long_for_tired} :
              LET r == _on_programming_ended(Self, now, play, duration)
                  after == update_pet_stats_periodically(r, now + happy_after_medium_work)
              IN  /\ r.state = "IDLE"
                  /\ r.mood = "HAPPY"
                  /\ r.current_action = "HAPPY"
                  /\ r.temporary_action_info = Timed("HAPPY", happy_after_medium_work)
                  /\ after.current_action = "IDLE"
                  /\ after.temporary_action_info = None
        /\ _on_programming_ended(Self, now, play, work_medium_for_happy)
              = set_state(Self, "IDLE", now, play)
        /\ _on_programming_ended(Self, now, play, work_medium_for_happy).current_action
              \in {"PLAY", "REST", "IDLE"}
        /\ _on_programming_ended(Self, now, play, work_long_for_tired + 1).current_action
              = "TIRED"

(* programming_ended after a medium session has just been handled.           *)
C13_Witness ==
    /\ state = "IDLE"
    /\ mood = "HAPPY"
    /\ current_action = "HAPPY"
    /\ temporary_action_info = Timed("HAPPY", happy_after_medium_work)
    /\ Has(emitted, <<"pet_state_changed", "WORKING", "IDLE">>)
    /\ Has(emitted, <<"ui_play_animation", "HAPPY", "HAPPY">>)

(* C14: entering IDLE from WORKING or SLEEPING, by set_state or by           *)
(* programming_ended with duration <= 1800, selects PLAY as a timed action   *)
(* when energy > 70 and happiness > 60, REST when energy < 30 and IDLE       *)
(* otherwise; the three cases exclude each other and cover every value.      *)
C14_IdleEntryAction ==
    state # "IDLE" =>
        \A play \in PlayDurations, duration \in {0, work_medium_for_happy} :
            LET r == _on_programming_ended(Self, now, play, duration)
            IN  /\ r = set_state(Self, "IDLE", now, play)
                /\ r.state = "IDLE"
                /\ r.current_action = IdleEntryAction
                /\ r.temporary_action_info =
                      IF IdleEntryAction = "PLAY" THEN Timed("PLAY", play) ELSE None
                /\ ~(energy > 70 /\ happiness > 60 /\ energy < 30)

(* A short session has ended with the pet low on energy: it rests.           *)
C14_Witness ==
    /\ state = "IDLE"
    /\ current_action = "REST"
    /\ ~Pending
    /\ energy < 30
    /\ Has(emitted, <<"pet_state_changed", "WORKING", "IDLE">>)

WakeMood ==
    IF energy < energy_tired THEN "TIRED"
    ELSE IF happiness < happiness_sad THEN "SAD"
    ELSE IF energy > energy_happy_excited /\ happiness > happiness_happy_excited THEN "HAPPY"
    ELSE IF energy < 30 THEN "TIRED"
    ELSE "NORMAL"

(* C16, with the mood the wake-up selects: a click on a SLEEPING pet gives   *)
(* state IDLE with the action of an entry into IDLE (PLAY timed, REST or     *)
(* IDLE), leaves energy and happiness alone, and sets the mood anew from     *)
(* the vitals: TIRED, SAD, HAPPY or NORMAL.                                  *)
C16_ClickWakes ==
    state = "SLEEPING" =>
        \A play \in PlayDurations, surprised \in BOOLEAN, react \in uniform(react_min, react_max) :
            LET r == _on_pet_interaction(Self, now, play, "click", pet_type, surprised, react)
            IN  /\ r.state = "IDLE"
                /\ r.current_action = IdleEntryAction
                /\ r.temporary_action_info =
                      IF IdleEntryAction = "PLAY" THEN Timed("PLAY", play) ELSE None
                /\ r.mood = WakeMood
                /\ r.energy = energy /\ r.happiness = happiness
                /\ r.out[Len(r.out)] = <<"pet_stats_updated", "", "">>

(* C16 as stated: the click wakes the pet and leaves the mood unchanged.     *)
C16_Original ==
    state = "SLEEPING" =>
        \A play \in PlayDurations :
            LET r == _on_pet_interaction(Self, now, play, "click", pet_type, FALSE, react_min)
            IN  /\ r.state = "IDLE"
                /\ r.current_action = IdleEntryAction
                /\ r.mood = mood

(* A click has just woken the pet, and its mood is no longer SLEEPY.         *)
C16_Witness ==
    /\ state = "IDLE"
    /\ mood = "NORMAL"
    /\ Has(emitted, <<"pet_state_changed", "SLEEPING", "IDLE">>)
    /\ Has(emitted, <<"pet_mood_changed", "SLEEPY", "RELAXED">>)
    /\ emitted[Len(emitted)] = <<"pet_stats_updated", "", "">>

(* C17: a click for the managed character on a pet that is not SLEEPING,     *)
(* whichever mood is drawn (SURPRISED or PLAYFUL), leaves the state alone,   *)
(* installs REACT as a timed action, raises happiness by 2 up to 100 and     *)
(* emits pet_stats_updated.                                                  *)
C17_ClickReacts ==
    state # "SLEEPING" =>
        \A surprised \in BOOLEAN, react \in uniform(react_min, react_max) :
            LET r == _on_pet_interaction(Self, now, NoPlay, "click", pet_type, surprised, react)
            IN  /\ r.state = state
                /\ r.current_action = "REACT"
                /\ r.temporary_action_info = Timed("REACT", react)
                /\ r.happiness = Min(100, happiness + happiness_on_click)
                /\ Has(r.out, <<"pet_stats_updated", "", "">>)

(* C18: a feed on a pet that is not SLEEPING leaves the state alone, leaves  *)
(* the mood HAPPY when the handler returns, installs EAT as a timed action   *)
(* and raises energy by 20 and happiness by 10, each up to 100; a feed on a  *)
(* SLEEPING pet changes neither state, action, record, energy nor happiness. *)
C18_FeedLeavesHappy ==
    LET r == _on_pet_interaction(Self, now, NoPlay, "feed", pet_type, FALSE, 0)
    IN  IF state # "SLEEPING"
        THEN /\ r.state = state
             /\ r.mood = "HAPPY"
             /\ r.current_action = "EAT"
             /\ r.temporary_action_info = Timed("EAT", eat)
             /\ r.energy = Min(100, energy + energy_on_feed)
             /\ r.happiness = Min(100, happiness + happiness_on_feed)
        ELSE /\ r.state = state
             /\ r.current_action = current_action
             /\ r.temporary_action_info = temporary_action_info
             /\ r.energy = energy
             /\ r.happiness = happiness

(* C19: achievement_unlocked and goal_reached, in any state, leave state,    *)
(* energy and happiness alone, set the mood EXCITED (achievement) or HAPPY   *)
(* (goal) and leave CELEBRATE as the one pending timed action, whatever      *)
(* record was pending before.                                                *)
C19_Celebrate ==
    LET a == _on_achievement_unlocked(Self, now)
        g == _on_goal_reached(Self, now)
    IN  /\ a.state = state /\ a.energy = energy /\ a.happiness = happiness
        /\ a.mood = "EXCITED"
        /\ a.current_action = "CELEBRATE"
        /\ a.temporary_action_info = Timed("CELEBRATE", celebrate_achievement)
        /\ g.state = state /\ g.energy = energy /\ g.happiness = happiness
        /\ g.mood = "HAPPY"
        /\ g.current_action = "CELEBRATE"
        /\ g.temporary_action_info = Timed("CELEBRATE", celebrate_goal)

(* achievement_unlocked has replaced the pending ENCOURAGE of a WORKING pet. *)
C19_Witness ==
    /\ state = "WORKING"
    /\ mood = "EXCITED"
    /\ current_action = "CELEBRATE"
    /\ temporary_action_info = Timed("CELEBRATE", celebrate_achievement)
    /\ Has(emitted, <<"pet_action_changed", "ENCOURAGE", "CELEBRATE">>)

(* C20: a keypress changes the pet only when the state is WORKING, count is  *)
(* a positive multiple of the reaction interval and the chance fires; then   *)
(* state, mood and vitals stay and the drawn reaction (SURPRISED, HAPPY or   *)
(* ENCOURAGE) is installed as a timed action.  In every other case state,    *)
(* mood, action, vitals and record are unchanged.                            *)
C20_KeypressFrame ==
    \A count \in Counts, fire \in BOOLEAN, reaction \in on_keypress,
       duration \in uniform(keypress_reaction_min, keypress_reaction_max) :
        LET r == _on_keypress(Self, now, count, fire, reaction, duration)
        IN  IF state = "WORKING" /\ count > 0 /\ count % keypress_reaction = 0 /\ fire
            THEN /\ r.state = state /\ r.mood = mood
                 /\ r.energy = energy /\ r.happiness = happiness
                 /\ r.current_action = reaction
                 /\ r.current_action \in {"SURPRISED", "HAPPY", "ENCOURAGE"}
                 /\ r.temporary_action_info = Timed(reaction, duration)
            ELSE SamePet(r)

(* A keypress has made a WORKING pet react with SURPRISED.                   *)
C20_Witness ==
    /\ state = "WORKING"
    /\ current_action = "SURPRISED"
    /\ Pending
    /\ temporary_action_info[1].action = "SURPRISED"
    /\ emitted = << <<"ui_play_animation", "SURPRISED", mood>>,
                    <<"pet_action_changed", "WORK", "SURPRISED">> >>

-----------------------------------------------------------------------------
(* The low-energy alert, the mood recomputation and the shutdown.            *)

(* C21: on a vitals tick of a WORKING pet whose energy is below the          *)
(* low-energy threshold, ALERT is installed and pet_alert is emitted only    *)
(* if ALERT is not the current action when the vitals are updated; when      *)
(* ALERT is current, the tick neither installs ALERT nor emits pet_alert.    *)
C21_AlertOnlyOnce ==
    [][(/\ IsTick
        /\ now' - last_state_update >= state_update_interval
        /\ state = "WORKING"
        /\ energy' < low_energy)
       => LET c == expire_temporary_action(Self, now')
          IN  IF c.current_action # "ALERT"
              THEN /\ current_action' = "ALERT"
                   /\ temporary_action_info' =
                         Some([action |-> "ALERT", end_time |-> now' + alert_low_energy])
                   /\ Has(emitted', <<"pet_alert", "low_energy", "">>)
              ELSE /\ current_action' = "ALERT"
                   /\ temporary_action_info' = c.temporary_action_info
                   /\ ~AlertInstalled(emitted')
                   /\ ~Has(emitted', <<"pet_alert", "low_energy", "">>)]_vars

(* The times of the next two calls of the periodic timer.                    *)
NextTicks == {now + ClockStep, now + 2 * ClockStep}

(* C23, with the alert: shutdown clears the pending record and changes       *)
(* nothing else, and the first tick after it leaves current_action alone     *)
(* unless its vitals update installs ALERT (WORKING, energy below the        *)
(* low-energy threshold).                                                    *)
C23_ShutdownClears ==
    LET c == shutdown(Self)
    IN  /\ c.temporary_action_info = None
        /\ [c EXCEPT !.temporary_action_info = temporary_action_info] = Self
        /\ \A t \in NextTicks :
              LET r == update_pet_stats_periodically(c, t)
              IN  \/ r.current_action = current_action
                  \/ /\ r.current_action = "ALERT"
                     /\ state = "WORKING"
                     /\ r.energy < low_energy
                     /\ AlertInstalled(r.out)

(* C23 as stated: a tick after shutdown never changes current_action.        *)
C23_Original ==
    LET c == shutdown(Self)
    IN  /\ c.temporary_action_info = None
        /\ \A t \in NextTicks :
              update_pet_stats_periodically(c, t).current_action = current_action

(* shutdown cleared the record of ALERT, and the tick after it left ALERT    *)
(* in place: nothing was installed and nothing reverted.                     *)
C23_Witness ==
    /\ current_action = "ALERT"
    /\ ~Pending
    /\ last_state_update = now
    /\ emitted # <<>>
    /\ ~AlertInstalled(emitted)
    /\ emitted[Len(emitted)] = <<"pet_stats_updated", "", "">>

(* C22: the recomputation gives TIRED when energy is below the tired         *)
(* threshold, else SAD when happiness is below the sad threshold, before     *)
(* any positive rule; a mood that is TIRED or SAD never becomes NORMAL; and  *)
(* nothing but the mood is changed.                                          *)
C22_TiredSadFirst ==
    LET r == _update_mood_based_on_stats(Self)
    IN  /\ energy < energy_tired => r.mood = "TIRED"
        /\ energy >= energy_tired /\ happiness < happiness_sad => r.mood = "SAD"
        /\ mood \in {"TIRED", "SAD"} => r.mood # "NORMAL"
        /\ (mood \in {"TIRED", "SAD"} /\ energy >= energy_tired /\ happiness >= happiness_sad
              /\ ~(energy > energy_happy_excited /\ happiness > happiness_happy_excited))
           => r = Self
        /\ [r EXCEPT !.mood = mood, !.out = <<>>] = Self
        /\ Chain(Events(r.out, "pet_mood_changed"), mood, r.mood)

(* The recomputation has turned SAD into TIRED: both thresholds were         *)
(* undercut and the tired one went first.                                    *)
C22_Witness ==
    /\ emitted = << <<"pet_mood_changed", "SAD", "TIRED">> >>
    /\ mood = "TIRED"
    /\ energy < energy_tired
    /\ happiness < happiness_sad

-----------------------------------------------------------------------------
(* The event bus: registration, dispatch, errors and order.                  *)

(* The handlers emit has called, in the order of the calls.                  *)
CalledHandlers == [i \in 1..Len(called) |-> called[i][1]]

(* The place in registrations of the call that last appended h to event e.   *)
LastRegistration(e, h) ==
    CHOOSE k \in 0..Len(registrations) :
        /\ k > 0 => registrations[k] = <<e, h>>
        /\ \A j \in (k + 1)..Len(registrations) : registrations[j] # <<e, h>>
        /\ k = 0 => \A j \in 1..Len(registrations) : registrations[j] # <<e, h>>

(* list holds its handlers in the order of their last registration.          *)
InRegistrationOrder(e, list) ==
    \A i, j \in 1..Len(list) :
        i < j => LastRegistration(e, list[i]) < LastRegistration(e, list[j])

(* Sequence a is the beginning of sequence b.                                *)
IsPrefix(a, b) == Len(a) <= Len(b) /\ \A i \in 1..Len(a) : a[i] = b[i]

(* An emit that starts copies the handlers registered for its event.         *)
EmitStarts == emits' # emits

(* C24: after every sequence of register and unregister calls no handler     *)
(* list holds a handler twice and no event name maps to an empty list;       *)
(* registering a registered handler, registering a value that is not         *)
(* callable, and unregistering an absent (event, handler) pair leave the     *)
(* bus as it is.                                                             *)
C24_NoDuplicateNoEmptyList ==
    /\ DOMAIN _listeners \subseteq EventNames
    /\ \A e \in DOMAIN _listeners :
          /\ _listeners[e] # <<>>
          /\ \A i, j \in 1..Len(_listeners[e]) :
                _listeners[e][i] = _listeners[e][j] => i = j
    /\ \A e \in EventNames, h \in Handlers :
          IF InList(h, registered(_listeners, e))
          THEN register(_listeners, e, h) = _listeners
          ELSE unregister(_listeners, e, h) = _listeners
    /\ \A e \in EventNames : register(_listeners, e, NotCallable) = _listeners

(* A handler was registered and unregistered again, its event name is gone   *)
(* from the dictionary, and a call that changed nothing was made as well.    *)
C24_Witness ==
    /\ \E e \in EventNames :
          /\ e \notin DOMAIN _listeners
          /\ \E h \in Handlers : InList(<<e, h>>, registrations)
    /\ DOMAIN _listeners # {}
    /\ bus_ops >= Len(registrations) + 2

(* C25: emit calls the handlers that were registered for its event when it   *)
(* started, whatever the handlers register or unregister while it runs: a    *)
(* handler removed since is still called, one added since is not.            *)
C25_DispatchToSnapshot ==
    /\ [](emit_pc = "dispatch" =>
            /\ Len(called) = position - 1
            /\ IsPrefix(CalledHandlers, handlers_to_call))
    /\ [](emit_pc = "returned" => CalledHandlers = handlers_to_call)
    /\ [][EmitStarts =>
            handlers_to_call' = registered(_listeners, emit_event_name')]_vars
    /\ [][emit_pc = "dispatch" => handlers_to_call' = handlers_to_call]_vars

(* emit has returned after a handler unregistered a handler that was still   *)
(* to be called and a handler registered a new one: the first was called,    *)
(* the second was not.                                                       *)
C25_Witness ==
    /\ emit_pc = "returned"
    /\ \E i, j \in 1..Len(called) :
          called[i][2] = "unregistered" /\ called[j][2] = "registered"
    /\ \E i \in 2..Len(called) :
          ~InList(called[i][1], registered(_listeners, emit_event_name))
    /\ \E h \in Handlers :
          /\ InList(h, registered(_listeners, emit_event_name))
          /\ ~InList(h, CalledHandlers)
    /\ bus_ops = Len(handlers_to_call) + 2

(* C26: when a handler raises, every handler after it in the list of the     *)
(* emit is still called exactly once, and emit returns to the emitter: the   *)
(* error is not propagated.                                                  *)
C26_ErrorsIsolated ==
    /\ emit_pc # "propagated"
    /\ emit_pc = "returned" =>
          \A i \in 1..Len(called) :
              called[i][2] = "raised" =>
                  \A j \in (i + 1)..Len(handlers_to_call) :
                      Cardinality({k \in 1..Len(called) :
                                       called[k][1] = handlers_to_call[j]}) = 1
    /\ emit_pc = "dispatch" /\ called # <<>> /\ called[Len(called)][2] = "raised"
          => position = Len(called) + 1

(* emit has returned; its first handler raised and two more were called.     *)
C26_Witness ==
    /\ emit_pc = "returned"
    /\ Len(called) = 3
    /\ called[1][2] = "raised"
    /\ called[2][2] = "returned"
    /\ called[3][2] = "returned"

(* C27: every handler list is in the order of the registrations, where a     *)
(* handler registered again after an unregister counts from its last         *)
(* registration, and emit calls the handlers of its event in that order.     *)
C27_RegistrationOrder ==
    /\ [](\A e \in DOMAIN _listeners : InRegistrationOrder(e, _listeners[e]))
    /\ [][EmitStarts =>
            /\ handlers_to_call' = registered(_listeners, emit_event_name')
            /\ InRegistrationOrder(emit_event_name', handlers_to_call')]_vars
    /\ [](emit_pc \in {"dispatch", "returned"} =>
            IsPrefix(CalledHandlers, handlers_to_call))

(* on_user_login was registered first, unregistered and registered again     *)
(* after on_user_login_notification: emit called it last.                    *)
C27_Witness ==
    /\ emit_pc = "returned"
    /\ registrations = << <<"USER_LOGIN", "on_user_login">>,
                          <<"USER_LOGIN", "on_user_login_notification">>,
                          <<"USER_LOGIN", "on_user_login">> >>
    /\ bus_ops = 4
    /\ emit_event_name = "USER_LOGIN"
    /\ CalledHandlers = <<"on_user_login_notification", "on_user_login">>

-----------------------------------------------------------------------------
(* The activity tracker: sessions, idle time and failures.                   *)

RECURSIVE Alternates(_, _)
(* In log every programming_started comes with no session open and every     *)
(* closing event with one open, starting from `open`.                        *)
Alternates(log, open) ==
    IF log = <<>>
    THEN TRUE
    ELSE IF Head(log)[1] = "programming_started"
    THEN ~open /\ Alternates(Tail(log), TRUE)
    ELSE open /\ Alternates(Tail(log), FALSE)

(* C28: a sample emits programming_started exactly when the classification  *)
(* goes from false to true and programming_ended exactly when it goes from   *)
(* true to false; started and closing events (programming_ended or           *)
(* programming_idle) alternate, a session being open exactly while           *)
(* is_programming holds; and a closing event carries the time since the      *)
(* programming_started before it, which opened the session at its own time.  *)
C28_SessionEventsAlternate ==
    /\ [](is_programming <=> session_is_open(programming_sessions))
    /\ [](\A window \in Windows, idle_time \in IdleSamples :
            LET r == _check_active_window(SelfTracker, now, window, idle_time)
                log == r.out
            IN  /\ Has(log, <<"programming_started", 0, 0>>)
                      <=> (window = "programming" /\ ~is_programming)
                /\ (\E i \in 1..Len(log) : log[i][1] = "programming_ended")
                      <=> (window = "other" /\ is_programming)
                /\ Alternates(log, is_programming)
                /\ r.is_programming <=> session_is_open(r.programming_sessions)
                /\ \A i \in 1..Len(log) :
                      log[i][1] # "programming_started" =>
                          log[i][2] = IF i > 1
                                      THEN 0
                                      ELSE now - programming_sessions[
                                                     Len(programming_sessions)].start_time)
    /\ [][Has(emitted', <<"programming_started", 0, 0>>) =>
            /\ Len(programming_sessions') = Len(programming_sessions) + 1
            /\ programming_sessions'[Len(programming_sessions')].start_time = now]_vars

(* A session of two seconds has been closed by programming_ended.            *)
C28_Witness ==
    /\ emitted = << <<"programming_ended", 2, 0>> >>
    /\ ~is_programming
    /\ Len(programming_sessions) = 1
    /\ programming_sessions[1].end_time = Some(programming_sessions[1].start_time + 2)
    /\ total_programming_time = 2

(* C29: a sample that classifies as programming while the idle time exceeds  *)
(* the threshold ends with is_programming false and no session open, and     *)
(* programming_idle is the only event it emits.                              *)
C29_IdleTakesPrecedence ==
    is_running =>
        LET r == _check_active_window(SelfTracker, now, "programming", idle_threshold + 1)
        IN  /\ ~r.is_programming
            /\ ~session_is_open(r.programming_sessions)
            /\ Len(r.out) = 1
            /\ r.out[1][1] = "programming_idle"

(* C30: when the window calls fail during a pass of the loop, the error is   *)
(* caught, nothing of the tracker changes, the loop sleeps twice the check   *)
(* interval before the next pass and goes on running.                        *)
C30_BackoffAfterFailure ==
    is_running =>
        \A idle_time \in IdleSamples :
            LET r == _tracking_loop(SelfTracker, now, "error", idle_time)
            IN  /\ ~r.raised
                /\ r.is_running
                /\ [r EXCEPT !.slept = slept] = SelfTracker
                /\ r.slept = check_interval * 2

-----------------------------------------------------------------------------
(* The daily statistics of the tracker.                                      *)

RECURSIVE ClosedTime(_)
(* The sum of the durations of the closed sessions of a list.                *)
ClosedTime(sessions) ==
    IF sessions = <<>>
    THEN 0
    ELSE (IF Head(sessions).end_time = None THEN 0 ELSE Head(sessions).duration)
         + ClosedTime(Tail(sessions))

(* C31: reset_daily_stats sets the accumulated total to 0 and empties the    *)
(* session list without changing the classification; when the classification *)
(* is programming the list holds exactly one fresh open session right after  *)
(* the reset, otherwise none; and the reset emits no event.                  *)
C31_ResetDailyStats ==
    /\ [](LET r == reset_daily_stats(SelfTracker, now)
          IN  /\ r.total_programming_time = 0
              /\ r.is_programming = is_programming
              /\ r.is_running = is_running
              /\ r.programming_sessions =
                     IF is_programming
                     THEN << [start_time |-> now, end_time |-> None, duration |-> 0] >>
                     ELSE <<>>
              /\ r.out = <<>>)
    /\ [][ResetDailyStats =>
            /\ total_programming_time' = 0
            /\ is_programming' = is_programming
            /\ Len(programming_sessions') = (IF is_programming THEN 1 ELSE 0)
            /\ emitted' = <<>>]_vars

(* A reset during a programming session, after time has been accumulated or  *)
(* not: the total is 0 and the only session is the one opened by the reset.  *)
C31_Witness ==
    /\ is_programming
    /\ now > 0
    /\ total_programming_time = 0
    /\ programming_sessions = << [start_time |-> now, end_time |-> None, duration |-> 0] >>

(* C37: after any sequence of sampler ticks, daily-stats queries and daily   *)
(* resets the session list holds at most one open session, which is the last *)
(* of the list; an open session exists exactly when the classification is    *)
(* programming; and the accumulated total is the sum of the durations of the *)
(* closed sessions of the list, those closed since the last reset.           *)
C37_OneOpenSessionAndTotal ==
    /\ \A i \in 1..(Len(programming_sessions) - 1) :
          programming_sessions[i].end_time # None
    /\ is_programming <=> session_is_open(programming_sessions)
    /\ total_programming_time = ClosedTime(programming_sessions)
    /\ \A i \in 1..Len(programming_sessions) :
          programming_sessions[i].end_time # None =>
              programming_sessions[i].end_time =
                  Some(programming_sessions[i].start_time + programming_sessions[i].duration)

(* A query has closed a running session of one second or more into the       *)
(* total and opened the next one.                                            *)
C37_Witness ==
    /\ is_programming
    /\ Len(programming_sessions) >= 2
    /\ programming_sessions[1].end_time # None
    /\ programming_sessions[1].duration >= 1
    /\ total_programming_time >= 1
    /\ programming_sessions[Len(programming_sessions)].start_time = now
    /\ session_is_open(programming_sessions)

-----------------------------------------------------------------------------
(* The keylogger.                                                            *)

-----------------------------------------------------------------------------
(* The setters and values outside their enumerations.                        *)

(* C33: a setter called with a value that is no member of its enumeration    *)
(* returns and does exactly what it does for the safe default: set_action    *)
(* for IDLE, set_mood for NORMAL, set_state for IDLE.                        *)
C33_InvalidValueCoerced ==
    /\ [](\A v \in InvalidValues :
            /\ \A duration \in SetterDurations :
                  /\ set_action(Self, v, duration, now)
                        = set_action(Self, "IDLE", duration, now)
                  /\ set_action(Self, v, duration, now).current_action = "IDLE"
            /\ set_mood(Self, v) = set_mood(Self, "NORMAL")
            /\ set_mood(Self, v).mood = "NORMAL"
            /\ \A play \in PlayDurations :
                  /\ set_state(Self, v, now, play) = set_state(Self, "IDLE", now, play)
                  /\ set_state(Self, v, now, play).state = "IDLE")
    /\ [][(handled' # handled /\ local'["main"].action \in InvalidValues) =>
            /\ local'["main"].return = "set_action" => current_action' = "IDLE"
            /\ local'["main"].return = "set_mood" => mood' = "NORMAL"
            /\ local'["main"].return = "set_state" => state' = "IDLE"
            /\ state' \in StateType /\ mood' \in MoodType /\ current_action' \in ActionType]_vars

(* set_state has been called with an unknown value while the pet was         *)
(* working: the pet has gone to IDLE.                                        *)
C33_Witness ==
    /\ local["main"].return = "set_state"
    /\ local["main"].action = "DANCE"
    /\ state = "IDLE"
    /\ Has(emitted, <<"pet_state_changed", "WORKING", "IDLE">>)

-----------------------------------------------------------------------------
(* The window and its animator.                                              *)

(* Whether the animator has cached frames for an animation.                  *)
HasFrames(a, name) == name \in DOMAIN a._animations /\ a._animations[name] # <<>>

RECURSIVE Advance(_, _)
(* The animator after k calls of next_frame.                                 *)
Advance(a, k) == IF k = 0 THEN a ELSE Advance(next_frame(a), k - 1)

(* C35: after a successful switch to an action with n >= 1 frames, the       *)
(* action already playing included, the frame index is 0 and the k-th call   *)
(* of next_frame after it returns the frame at index k mod n; the index is   *)
(* within [0, n) in every reachable state; and next_frame on an empty        *)
(* sequence returns the empty frame and leaves the index alone.              *)
C35_FrameIndexCycles ==
    /\ [](animator # None =>
            LET a == animator[1]
                n == Len(a._current_frames)
            IN  /\ n >= 1
                /\ 0 <= a._current_frame_index /\ a._current_frame_index < n
                /\ \A name \in AnimationNames :
                      HasFrames(a, name) =>
                          LET a1 == set_current_animation(a, name)
                              m == Len(a._animations[name])
                          IN  /\ set_current_animation_return(a, name)
                              /\ a1._current_frame_index = 0
                              /\ a1._current_frames = a._animations[name]
                              /\ \A k \in 1..(2 * MaxFrames) :
                                    /\ next_frame_return(Advance(a1, k - 1))
                                          = a._animations[name][(k % m) + 1]
                                    /\ Advance(a1, k)._current_frame_index = k % m)
    /\ [](\A first \in AnimationNames :
            LET a == Animator([name \in AnimationNames |-> <<>>], first)
            IN  /\ a._current_frames = <<>>
                /\ next_frame_return(a) = None
                /\ next_frame(a) = a
                /\ a._current_frame_index = 0)
    /\ [][UpdateAnimation =>
            LET a == animator[1]
                n == Len(a._current_frames)
            IN  /\ animator'[1]._current_frame_index = (a._current_frame_index + 1) % n
                /\ pet_label' = <<"pixmap",
                                  a._current_frames[animator'[1]._current_frame_index + 1]>>]_vars

(* Two timer ticks after a switch to PLAY with three frames: the frame at    *)
(* index 2 is shown.                                                         *)
C35_Witness ==
    /\ animator # None
    /\ animator[1]._current_animation_name = Some("PLAY")
    /\ Len(animator[1]._current_frames) = MaxFrames
    /\ animator[1]._current_frame_index = 2
    /\ pet_label = <<"pixmap", <<"PLAY", 2>>>>
    /\ animation_timer

-----------------------------------------------------------------------------
(* The order of the two parts of the periodic update.                        *)

(* The place of the first event of log with this name and first field.       *)
First(log, name, x) ==
    IF \E i \in 1..Len(log) : log[i][1] = name /\ log[i][2] = x
    THEN CHOOSE i \in 1..Len(log) :
            /\ log[i][1] = name /\ log[i][2] = x
            /\ \A j \in 1..(i - 1) : ~(log[j][1] = name /\ log[j][2] = x)
    ELSE 0

(* C36: in a call of the periodic update in which the temporary action has   *)
(* expired and the vitals interval has elapsed, the expiry comes first: its  *)
(* events, with the mood of before the call, precede those of the vitals     *)
(* update, and the low-energy check sees the action the expiry has left, so  *)
(* that an ALERT that has just expired is installed again for a WORKING pet  *)
(* with low energy.                                                          *)
C36_ExpiryBeforeVitals ==
    [][(/\ IsTick
        /\ Pending
        /\ now' >= temporary_action_info[1].end_time
        /\ now' - last_state_update >= state_update_interval)
       => LET expired == temporary_action_info[1].action
              after_expiry == IF current_action = expired THEN "IDLE" ELSE current_action
              last == Len(emitted')
          IN  /\ emitted'[last] = <<"pet_stats_updated", "", "">>
              /\ last_state_update' = now'
              /\ current_action = expired =>
                    /\ emitted'[1] = <<"ui_play_animation", "IDLE", mood>>
                    /\ expired # "IDLE" =>
                          emitted'[2] = <<"pet_action_changed", expired, "IDLE">>
              /\ IF state = "WORKING" /\ energy' < low_energy /\ after_expiry # "ALERT"
                 THEN /\ current_action' = "ALERT"
                      /\ temporary_action_info' =
                            Some([action |-> "ALERT", end_time |-> now' + alert_low_energy])
                      /\ Has(emitted', <<"pet_action_changed", after_expiry, "ALERT">>)
                      /\ First(emitted', "ui_play_animation", "ALERT") > 1
                      /\ First(emitted', "pet_alert", "low_energy")
                            > First(emitted', "ui_play_animation", "ALERT")
                 ELSE /\ current_action' = after_expiry
                      /\ temporary_action_info' = None
                      /\ ~AlertInstalled(emitted')]_vars

(* A late tick on which the ALERT of a WORKING pet without energy expired    *)
(* and the vitals were due: the pet went to IDLE and back to ALERT.          *)
C36_Witness ==
    /\ state = "WORKING"
    /\ energy < low_energy
    /\ current_action = "ALERT"
    /\ last_state_update = now
    /\ temporary_action_info = Some([action |-> "ALERT", end_time |-> now + alert_low_energy])
    /\ Has(emitted, <<"pet_action_changed", "ALERT", "IDLE">>)
    /\ Has(emitted, <<"pet_action_changed", "IDLE", "ALERT">>)
    /\ Has(emitted, <<"pet_alert", "low_energy", "">>)

-----------------------------------------------------------------------------
(* The tracker and the controller together.                                  *)

(* C38: once the handlers of a pass of the tracker have returned, a          *)
(* classification that is not programming goes with a State that is not      *)
(* WORKING.                                                                  *)
C38_StateFollowsClassification ==
    ~is_programming => state # "WORKING"

-----------------------------------------------------------------------------
(* The mood and the action of a pet at rest in its State.                    *)

(* C39: a periodic update of a SLEEPING pet whose mood is SLEEPY leaves the  *)
(* mood SLEEPY.                                                              *)
C39_SleepyWhileSleeping ==
    [][(IsTick /\ state = "SLEEPING" /\ mood = "SLEEPY")
          => (state' = "SLEEPING" /\ mood' = "SLEEPY")]_vars

(* C40: without a pending temporary-action record the current action is a    *)
(* default action of the State: WORK while WORKING, SLEEP while SLEEPING,    *)
(* IDLE or REST while IDLE.                                                  *)
C40_DefaultActionOfState ==
    ~Pending =>
        current_action \in (CASE state = "WORKING" -> {"WORK"}
                              [] state = "SLEEPING" -> {"SLEEP"}
                              [] state = "IDLE" -> {"IDLE", "REST"})

====
